---- MODULE Spec2Model ----
(***************************************************************************)
(* Acidnade AI relay: the ten server variants (v9.1, v9.4, v10.4, v13.0,   *)
(* v14.0, v15.0, v17.0, v17.1, v18.0, ULTIMATE) as one state machine.      *)
(*                                                                         *)
(* A behaviour runs ONE variant (chosen in Init: each variant is its own   *)
(* process).  The state is the process-local session map, the /ai requests *)
(* that are awaiting the Generation Client, and the last response sent.    *)
(*                                                                         *)
(* JavaScript values are encoded as strings: the tokens in angle brackets  *)
(* stand for the non-string values, every other string is that string.     *)
(***************************************************************************)
EXTENDS Integers, Sequences, FiniteSets, TLC

\* ------------------------------------------------------------------ values
Undef == "<undefined>"
Null == "<null>"
JTrue == "<true>"
JFalse == "<false>"
JZero == "<0>"
JNum == "<7>"
JObj == "<object>"

\* the tokens that are not JavaScript strings
NonStrings == {Undef, Null, JTrue, JFalse, JZero, JNum, JObj}

IsString(v) == v \notin NonStrings

\* ToBoolean: undefined, null, false, 0 and "" are falsy
Truthy(v) == v \notin {Undef, Null, JFalse, JZero, ""}

\* a || b
OrElse(a, b) == IF Truthy(a) THEN a ELSE b

\* a ?? b
Coalesce(a, b) == IF a \in {Undef, Null} THEN b ELSE a

\* a number field that is absent
Absent == 0 - 1

\* ------------------------------------------------------------------- steps
\* A plan step as decoded from the generated JSON.  kind tells an object from
\* the JSON value null and from a primitive (a number, a string, a boolean)
\* in the array; step is the "step" number (Absent when missing).
Step(st, d, t, c, n, p, pr) ==
  [kind |-> "object", step |-> st, description |-> d, type |-> t, className |-> c,
   name |-> n, parentPath |-> p, properties |-> pr]

\* reading a member of a primitive gives undefined
NoMembers(k) ==
  [kind |-> k, step |-> Absent, description |-> Undef, type |-> Undef,
   className |-> Undef, name |-> Undef, parentPath |-> Undef, properties |-> Undef]

NullStep == NoMembers("null")

PrimStep == NoMembers("primitive")

\* the value of data.plan: k is the kind of JavaScript value, steps its
\* elements when it is an array
NoPlan == [k |-> "undefined", steps |-> <<>>]
ArrPlan(s) == [k |-> "array", steps |-> s]
OtherPlan(k) == [k |-> k, steps |-> <<>>]

PlanTruthy(p) == p.k \in {"array", "object", "string"}
PlanIsArray(p) == p.k = "array"

\* data.plan.length: a number for an array or a string ("abc"), undefined
\* (Absent) for any other truthy value
PlanLength(p) ==
  IF p.k = "array" THEN Len(p.steps) ELSE IF p.k = "string" THEN 3 ELSE Absent

\* --------------------------------------------------------- response bodies
\* The object handed to res.json, and equally the value JSON.parse returned:
\* kind is "object", "array", "primitive" (number, string, boolean) or "null".
\* JSON.stringify drops undefined members, so Undef is "no such member".
Obj ==
  [kind |-> "object", message |-> Undef, plan |-> NoPlan, autoExecute |-> Undef,
   needsApproval |-> Undef, stepsTotal |-> Absent, totalSteps |-> Absent,
   canUndo |-> Undef, type |-> Undef, error |-> Undef,
   lastIdeas |-> Undef, lastPlan |-> <<>>]

\* data.f = v: kept on objects and arrays, silently ignored on a primitive
\* (the files are sloppy-mode CommonJS)
SetMessage(d, v) == IF d.kind = "primitive" THEN d ELSE [d EXCEPT !.message = v]
SetPlan(d, v) == IF d.kind = "primitive" THEN d ELSE [d EXCEPT !.plan = v]
SetAuto(d, v) == IF d.kind = "primitive" THEN d ELSE [d EXCEPT !.autoExecute = v]
SetApproval(d, v) == IF d.kind = "primitive" THEN d ELSE [d EXCEPT !.needsApproval = v]
SetStepsTotal(d, v) == IF d.kind = "primitive" THEN d ELSE [d EXCEPT !.stepsTotal = v]
SetCanUndo(d, v) == IF d.kind = "primitive" THEN d ELSE [d EXCEPT !.canUndo = v]
SetType(d, v) == IF d.kind = "primitive" THEN d ELSE [d EXCEPT !.type = v]

\* res.json(data): an array is serialised without its named members, a
\* primitive as itself
Serialise(d) ==
  IF d.kind = "object" THEN d ELSE [Obj EXCEPT !.kind = d.kind]

JBool(b) == IF b THEN JTrue ELSE JFalse

\* -------------------------------------------------------------- predicates
\* step => step.type === 'delete' counted over the plan
DeletionCount(steps) == Cardinality({i \in 1..Len(steps) : steps[i].type = "delete"})

HasNullStep(steps) == \E i \in 1..Len(steps) : steps[i].kind = "null"

RECURSIVE FilterSteps(_, _)
\* Array.prototype.filter with the predicate "className is not in classes"
FilterSteps(steps, classes) ==
  IF steps = <<>> THEN <<>>
  ELSE IF Head(steps).className \in classes
       THEN FilterSteps(Tail(steps), classes)
       ELSE <<Head(steps)>> \o FilterSteps(Tail(steps), classes)

HasClassIn(steps, classes) == \E i \in 1..Len(steps) : steps[i].className \in classes

\* `This will delete ${deletionCount} items. Review and approve.`
DeleteWarning(n) == "This will delete " \o ToString(n) \o " items. Review and approve."

\* ---------------------------------------------------------------- variants
V91 == "v9.1"
V94 == "v9.4"
V104 == "v10.4"
V130 == "v13.0"
V140 == "v14.0"
V150 == "v15.0"
V170 == "v17.0"
V171 == "v17.1"
V180 == "v18.0"
VULT == "ULTIMATE"

Variants == {V91, V94, V104, V130, V140, V150, V170, V171, V180, VULT}

\* the variants that keep a session map
SessionVariants == {V104, V170, V171, V180}

\* the variants with POST /undo
UndoVariants == {V170, V171, V180}

\* ------------------------------------------------------------ canned steps
ScriptStep(d, n) ==
  Step(1, d, "create", "Script", n, "game.ServerScriptService", JObj)

\* the three-step "combo" plan of the decode fallback (v13.0, ULTIMATE)
ComboPlan(remote, server, client) ==
  << Step(1, "Create RemoteEvent", "create", "RemoteEvent", remote,
          "game.ReplicatedStorage", JObj),
     Step(2, "Create server-side combo handler", "create", "Script", server,
          "game.ServerScriptService", JObj),
     Step(3, "Create LocalScript for combo input", "create", "LocalScript", client,
          "game.StarterPlayer.StarterPlayerScripts", JObj) >>

\* the three-step fallback plan of v18.0 plan mode
FallbackPlan18 ==
  << Step(1, "Create main script", "create", "Script", "MainScript",
          "game.ServerScriptService", JObj),
     Step(2, "Create client-side handler", "create", "LocalScript", "ClientHandler",
          "game.StarterPlayer.StarterPlayerScripts", JObj),
     Step(3, "Create configuration module", "create", "ModuleScript", "Config",
          "game.ReplicatedStorage", JObj) >>

PlanBody(msg, steps, auto) ==
  [Obj EXCEPT !.message = msg, !.plan = ArrPlan(steps), !.autoExecute = auto]

MsgBody(msg) == [Obj EXCEPT !.message = msg]

\* a sent response
Reply(status, body) == [status |-> status, body |-> body]

\* the response to an empty prompt: `if (!prompt || prompt.trim() === '')`
PromptingBody(v) ==
  CASE v = V140 -> PlanBody("What do you need?", <<>>, JTrue)
    [] v = V180 -> [MsgBody("What do you want me to create?") EXCEPT !.type = "error"]
    [] v = VULT -> PlanBody("What do you need in your Roblox game?", <<>>, JTrue)
    [] v = V130 -> PlanBody("What do you want me to CREATE?", <<>>, JTrue)
    [] v = V104 -> MsgBody("Hi! I'm Acidnade AI. Ready to help!")
    [] v = V94 -> MsgBody("Hi! I'm Acidnade AI. What would you like to build today?")
    [] v \in {V170, V171} -> PlanBody("What do you want me to create?", <<>>, JTrue)
    [] v = V150 -> PlanBody("What do you need me to create or modify?", <<>>, JTrue)

\* the response of the handler's outer catch
CatchReply(v) ==
  CASE v = V140 -> Reply(200, PlanBody("I'm ready to help! What do you need?", <<>>, JTrue))
    [] v = V180 -> Reply(200, [MsgBody("Error processing request. Please try again.")
                                 EXCEPT !.type = "error"])
    [] v = V91 -> Reply(500, [Obj EXCEPT !.error = "error.message"])
    [] v = VULT -> Reply(200, [PlanBody("Luau expert emergency creation!",
                                       <<ScriptStep("Luau expert emergency system",
                                                    "EmergencyLuauSystem")>>, JTrue)
                                 EXCEPT !.needsApproval = JFalse])
    [] v = V130 -> Reply(200, [PlanBody("Creating system now!",
                                       <<ScriptStep("Emergency system creation",
                                                    "EmergencyCreator")>>, JTrue)
                                 EXCEPT !.needsApproval = JFalse])
    [] v = V104 -> Reply(200, MsgBody("Hi! Let's create an amazing game together!"))
    [] v = V94 -> Reply(200, MsgBody("Hi there! I'm Acidnade AI, ready to help you build."))
    [] v \in {V170, V171} -> Reply(200, PlanBody("Error occurred. Try again.", <<>>, JFalse))
    [] v = V150 -> Reply(200, PlanBody("Error occurred. Please try again.", <<>>, JFalse))

\* the response when model.generateContent rejects
ApiErrorReply(v) ==
  CASE v = V140 -> Reply(200, PlanBody("I'll help you with that!", <<>>, JTrue))
    [] v \in {V180, V91} -> CatchReply(v)
    [] v = VULT -> Reply(200, [PlanBody("Luau expert creating system...",
                                       <<ScriptStep("Creating Luau system component",
                                                    "LuauSystem")>>, JTrue)
                                 EXCEPT !.needsApproval = JFalse])
    [] v = V130 -> Reply(200, [PlanBody("Creating system now!",
                                       <<ScriptStep("Creating main system",
                                                    "SystemCreator")>>, JTrue)
                                 EXCEPT !.needsApproval = JFalse])
    [] v = V104 -> Reply(200, MsgBody("Hello! Ready to create something awesome."))
    [] v = V94 -> Reply(200, MsgBody("Hey! I'm here to help. What would you like to create?"))
    [] v \in {V170, V171} -> Reply(200, PlanBody("Error connecting to AI. Try again.", <<>>, JTrue))
    [] v = V150 -> Reply(200, PlanBody("Error processing request. Please try again.", <<>>, JTrue))

\* ----------------------------------------------------------------- prompts
\* `!prompt || prompt.trim() === ''`
Blank == "   "

PromptEmpty(p) == ~Truthy(p) \/ p = Blank

\* prompt.trim() on a truthy value that is not a string is a TypeError
PromptThrows(p) == Truthy(p) /\ ~IsString(p)

\* String.prototype.includes over the prompts of the model: the keywords of
\* the handlers that each prompt contains as a substring
PMake == "make a shop"
PIdeas == "suggest ideas for a game"
PWhat == "what is a combo"

\* prompts for v9.4's wantsToCreateOrFix: short and long, with capitals
PHiShop == "hi, make me a shop"
PLongHello == "Hello! Please MAKE a shop with a wheel and an inventory for me"
PLongHelloLower == "hello! please make a shop with a wheel and an inventory for me"
PError == "error in my code"
PDelete == "delete the red part"
PRename == "rename the door"
PLongError == "hello, there is an error when the wheel spins around the shop"
PShout == "MAKE A SHOP"

\* String.prototype.toLowerCase over the prompts
ToLowerCase(p) ==
  CASE p = PLongHello -> PLongHelloLower
    [] p = PShout -> PMake
    [] OTHER -> p

\* the words of the handlers' keyword lists that occur in a (lower-case) prompt
Substrings(p) ==
  CASE p = PMake -> {"make", "shop"}
    [] p = PIdeas -> {"suggest", "ideas", "ideas for", "game"}
    [] p = PWhat -> {"what", "what is", "combo"}
    [] p = PHiShop -> {"hi", "make", "shop"}
    [] p = PLongHelloLower -> {"hello", "make", "shop", "wheel", "inventory"}
    [] p = PError -> {"error", "code"}
    [] p = PDelete -> {"delete"}
    [] p = PLongError -> {"hello", "error", "wheel", "shop"}
    [] OTHER -> {}

Includes(p, w) == w \in Substrings(p)

StartsWith(p, w) == p = PWhat /\ w \in {"what", "what is"}

\* --------------------------------------------------- Generation Client call
\* What one `await model.generateContent(...)` produced:
\*   "throw"   the call rejected
\*   "noresp"  it resolved without a response object
\*   "notext"  result.response.text() threw
\*   "garbage" the cleaned text (field text) is not JSON
\*   "json"    the cleaned text decoded to the value val
Thrown == [k |-> "throw", text |-> "", val |-> Obj]
NoResponse == [k |-> "noresp", text |-> "", val |-> Obj]
NoText == [k |-> "notext", text |-> "", val |-> Obj]
Garbage(t) == [k |-> "garbage", text |-> t, val |-> Obj]
Decoded(v) == [k |-> "json", text |-> "", val |-> v]

\* ------------------------------------------------------- the generated text
\* Where the characters of the text matter it is a sequence of pieces, each a
\* run of characters; the text is their concatenation.  Fence stands for the
\* three backquotes of a code fence.
Fence == "~~~"
Tag == "json"
NL == "\n"
SP == " "
Letter == "a"
\* the two characters backslash and n: a line break inside a JSON string
Esc == "\\n"
\* the document is an object with one string member
JOpen == "{\"message\":\""
JClose == "\"}"

\* String.prototype.trim
RECURSIVE TrimLeft(_)
TrimLeft(t) == IF t # <<>> /\ t[1] \in {NL, SP} THEN TrimLeft(Tail(t)) ELSE t

RECURSIVE TrimRight(_)
TrimRight(t) ==
  IF t # <<>> /\ t[Len(t)] \in {NL, SP} THEN TrimRight(SubSeq(t, 1, Len(t) - 1)) ELSE t

Trim(t) == TrimLeft(TrimRight(t))

\* .replace(/~~~json\n?/g, ''): every fence followed by json goes, with the
\* line break after it if there is one
RECURSIVE StripTagged(_)
StripTagged(t) ==
  IF t = <<>> THEN <<>>
  ELSE IF Len(t) >= 2 /\ t[1] = Fence /\ t[2] = Tag
  THEN IF Len(t) >= 3 /\ t[3] = NL THEN StripTagged(SubSeq(t, 4, Len(t)))
       ELSE StripTagged(SubSeq(t, 3, Len(t)))
  ELSE <<t[1]>> \o StripTagged(Tail(t))

\* .replace(/~~~\n?/g, ''): every fence goes, with the line break after it
RECURSIVE StripFences(_)
StripFences(t) ==
  IF t = <<>> THEN <<>>
  ELSE IF t[1] = Fence
  THEN IF Len(t) >= 2 /\ t[2] = NL THEN StripFences(SubSeq(t, 3, Len(t)))
       ELSE StripFences(Tail(t))
  ELSE <<t[1]>> \o StripFences(Tail(t))

\* result.response.text().trim() and the "Clean response" statement
CleanResponse(t) == Trim(StripFences(StripTagged(Trim(t))))

\* the characters a JSON string may hold between its quotes, among the pieces
StringPieces == {Fence, Tag, SP, Letter, Esc}

\* JSON.parse of a string member: the escape becomes the line break
Unescape(c) == IF c = Esc THEN NL ELSE c

\* JSON.stringify of a string member, as the Generation Client writes it
Escape(c) == IF c = NL THEN Esc ELSE c

\* JSON.parse(response) for the documents of the model: white space around
\* the document is allowed, a raw line break or a quote inside the string is
\* a SyntaxError
JSONparse(t) ==
  LET d == Trim(t)
      mid == SubSeq(d, 2, Len(d) - 1)
  IN IF /\ Len(d) >= 2
        /\ d[1] = JOpen
        /\ d[Len(d)] = JClose
        /\ \A i \in 1..Len(mid) : mid[i] \in StringPieces
     THEN [ok |-> TRUE, value |-> [i \in 1..Len(mid) |-> Unescape(mid[i])]]
     ELSE [ok |-> FALSE, value |-> <<>>]

\* the pieces as one string
RECURSIVE Str(_)
Str(t) == IF t = <<>> THEN "" ELSE t[1] \o Str(Tail(t))

\* the text of a Generation Client that wrote the string value wrote as a
\* JSON document (unterminated when closed is FALSE) between pre and post
Written(pre, wrote, post, closed) ==
  [k |-> "text", text |-> "", val |-> Obj, wrote |-> wrote, closed |-> closed,
   toks |-> pre \o <<JOpen>> \o [i \in 1..Len(wrote) |-> Escape(wrote[i])]
              \o (IF closed THEN <<JClose>> ELSE <<>>) \o post]

\* texts that are not JSON
TNotJson == "not json at all"
TIdeas == "here are some ideas: a shop, a pet"

\* what the handler has after cleaning and JSON.parse: for a text given by
\* its pieces, the decoded value or the cleaned text that did not decode
Cook(out) ==
  IF out.k # "text" THEN out
  ELSE IF JSONparse(CleanResponse(out.toks)).ok
  THEN Decoded([Obj EXCEPT !.message = Str(JSONparse(CleanResponse(out.toks)).value)])
  ELSE Garbage(Str(CleanResponse(out.toks)))

\* response.toLowerCase().includes(<ideas phrase>) of v15.0
TextHasIdeas(t) == t = TIdeas

\* the side effects of one /ai request on its session, besides the reply:
\*   log       creation-log entries pushed (v17.0, v17.1)
\*   chat      assistant messages pushed on chatHistory (v10.4)
\*   prev      entries pushed on previousSteps (v10.4)
\*   ideas     lastIdeas was stored (v18.0)
\*   lastPlan  lastPlan values stored (v18.0)
\*   saved     the closing sessionData.set(sessionId, session) ran (v10.4)
Effect(reply) ==
  [reply |-> reply, log |-> <<>>, chat |-> <<>>, prev |-> <<>>,
   ideas |-> FALSE, lastPlan |-> <<>>, saved |-> FALSE]

\* ------------------------------------------------------------ UI class sets
UIClasses140 ==
  {"ScreenGui", "Frame", "TextLabel", "TextButton", "ImageLabel", "ImageButton",
   "ScrollingFrame", "TextBox", "ViewportFrame"}

UIClasses150 ==
  {"ScreenGui", "Frame", "TextLabel", "TextButton", "ImageLabel", "ImageButton",
   "ScrollingFrame", "TextBox", "ViewportFrame"}

UIClasses170 ==
  {"ScreenGui", "Frame", "TextLabel", "TextButton", "ImageLabel", "ScrollingFrame",
   "TextBox", "ImageButton", "ViewportFrame"}

UIClasses171 ==
  {"ScreenGui", "Frame", "TextLabel", "TextButton", "ImageLabel", "ScrollingFrame"}

UIClasses104 ==
  {"ScreenGui", "Frame", "TextLabel", "TextButton", "ImageLabel", "ScrollingFrame",
   "TextBox", "UIListLayout", "UIPadding", "UICorner", "UIStroke"}

UIClassesULT == {"ScreenGui", "Frame", "TextLabel", "TextButton"}

DeleteThreshold == 5

\* ------------------------------------------------------------------- v14.0
\* the decode stage: JSON.parse, or the fallback object when it throws
Parse140(out) ==
  IF out.k = "json" THEN out.val
  ELSE PlanBody("I understand what you need. Let me create that for you!", <<>>, JTrue)

\* "Validate plans": the deletion gate, then the UI filter
Enforce140(d) ==
  LET steps == d.plan.steps
      n == DeletionCount(steps)
      d1 == SetStepsTotal(d, Len(steps))
      d2 == IF d1.autoExecute = Undef THEN SetAuto(d1, JTrue) ELSE d1
      d3 == IF n >= DeleteThreshold
            THEN SetMessage(SetAuto(SetApproval(d2, JTrue), JFalse), DeleteWarning(n))
            ELSE SetApproval(d2, JFalse)
      kept == FilterSteps(steps, UIClasses140)
      d4 == SetPlan(d3, ArrPlan(kept))
      d5 == IF HasClassIn(steps, UIClasses140)
            THEN SetAuto(SetApproval(
                   SetMessage(d4, "UI creation violation detected. UI must be created inside LocalScript."),
                   JTrue), JFalse)
            ELSE d4
  IN SetStepsTotal(d5, Len(kept))

After140(req, out) ==
  IF out.k = "throw" THEN ApiErrorReply(V140)
  ELSE LET d0 == Parse140(out)
           d1 == IF ~Truthy(d0.message) THEN SetMessage(d0, "I'll handle that!") ELSE d0
       IN IF d0.kind = "null" THEN CatchReply(V140)
          ELSE IF PlanIsArray(d1.plan)
               THEN IF HasNullStep(d1.plan.steps) THEN CatchReply(V140)
                    ELSE Reply(200, Serialise(Enforce140(d1)))
               ELSE Reply(200, Serialise(d1))

\* ------------------------------------------------------------------- v15.0
Parse150(out) ==
  IF out.k = "json" THEN out.val
  ELSE IF TextHasIdeas(out.text)
       THEN [PlanBody("I should execute, not suggest. Please rephrase your request.",
                      <<>>, JFalse) EXCEPT !.needsApproval = JTrue]
       ELSE PlanBody("I'll create that for you!", <<>>, JTrue)

\* the message phrases of "Detect ideas mode in parsed response"
MsgIdeas == "Here are some ideas you could implement"

MessageHasIdeas(m) == m = MsgIdeas

\* data.message.includes("ideas") || ... of v13.0 and ULTIMATE
MessageSuggests(m) == m = MsgIdeas

UserWantsIdeas150(p) ==
  Includes(p, "ideas") \/ Includes(p, "suggest") \/ Includes(p, "what could")
    \/ Includes(p, "what should")

\* !data.plan || data.plan.length === 0
PlanMissingOrEmpty(pl) == ~PlanTruthy(pl) \/ PlanLength(pl) = 0

IdeasGuard150(d, p) ==
  IF Truthy(d.message) /\ MessageHasIdeas(d.message) /\ ~UserWantsIdeas150(p)
       /\ PlanMissingOrEmpty(d.plan)
  THEN SetAuto(SetApproval(
         SetMessage(d, "I detected you want me to DO something, not just suggest."),
         JTrue), JFalse)
  ELSE d

Enforce150(d) ==
  LET steps == d.plan.steps
      n == DeletionCount(steps)
      d1 == SetStepsTotal(d, Len(steps))
      d2 == IF d1.autoExecute = Undef THEN SetAuto(d1, JTrue) ELSE d1
      d3 == IF n >= DeleteThreshold
            THEN SetMessage(SetAuto(SetApproval(d2, JTrue), JFalse), DeleteWarning(n))
            ELSE SetApproval(d2, JFalse)
      kept == FilterSteps(steps, UIClasses150)
      d4 == SetPlan(d3, ArrPlan(kept))
      d5 == IF HasClassIn(steps, UIClasses150)
            THEN SetAuto(SetApproval(
                   SetMessage(d4, "UI must be created inside LocalScript. Correcting..."),
                   JTrue), JFalse)
            ELSE d4
  IN SetStepsTotal(d5, Len(kept))

\* console.log(`... ${data.plan[0].type.toUpperCase()} ...`) after the filter
LogThrows150(d) ==
  LET kept == FilterSteps(d.plan.steps, UIClasses150)
  IN kept # <<>> /\ ~IsString(kept[1].type)

After150(req, out) ==
  IF out.k = "throw" THEN ApiErrorReply(V150)
  ELSE IF out.k \in {"notext", "noresp"}
  THEN Reply(200, PlanBody("Error extracting response.", <<>>, JTrue))
  ELSE LET d0 == Parse150(out)
           d1 == IdeasGuard150(d0, req.prompt)
           d2 == IF ~Truthy(d1.message) THEN SetMessage(d1, "Done!") ELSE d1
       IN IF d0.kind = "null" \/ (Truthy(d0.message) /\ ~IsString(d0.message))
          THEN CatchReply(V150)
          ELSE IF PlanIsArray(d2.plan)
               THEN IF HasNullStep(d2.plan.steps) \/ LogThrows150(d2)
                    THEN CatchReply(V150)
                    ELSE Reply(200, Serialise(Enforce150(d2)))
               ELSE Reply(200, Serialise(d2))

\* -------------------------------------------------------------------- v9.1
After91(req, out) ==
  IF out.k \in {"throw", "noresp", "notext"} THEN CatchReply(V91)
  ELSE LET d0 == IF out.k = "json" THEN out.val ELSE MsgBody(out.text)
       IN IF d0.kind = "null" THEN CatchReply(V91)
          ELSE IF ~Truthy(d0.message) /\ ~PlanTruthy(d0.plan)
               THEN Reply(200, Serialise(SetMessage(d0, "Done.")))
               ELSE Reply(200, Serialise(d0))

\* -------------------------------------------------------------------- v9.4
\* wantsToCreateOrFix(message)
Greetings94 == {"hi", "hello", "hey", "greetings", "yo", "what's up"}
Questions94 == {"how are you", "what can you do", "help", "? "}
NormalChat94 == {"thanks", "thank you", "good", "ok", "okay", "bye"}
ErrorWords94 == {"error", "fix this", "not working", "issue"}
CreateKeywords94 ==
  {"create", "build", "make", "add", "implement", "code", "script", "ui", "system",
   "game", "widget", "button", "gui", "shop", "wheel", "fortune", "inventory",
   "leaderboard", "data store", "datastore", "remote", "tween", "animation"}

\* the length under which a chat word settles the question
ChatLength == 50

\* a function for which a chat word settles the question whatever the length
\* of the message (used to test C24)
wantsToCreateOrFix_AnyLength(message) ==
  IF \E w \in Greetings94 \cup Questions94 \cup NormalChat94 :
       Includes(ToLowerCase(message), w)
  THEN FALSE
  ELSE IF \E w \in ErrorWords94 : Includes(ToLowerCase(message), w) THEN FALSE
  ELSE IF \E w \in CreateKeywords94 : Includes(ToLowerCase(message), w) THEN TRUE
  ELSE Includes(ToLowerCase(message), "delete") \/ Includes(ToLowerCase(message), "remove")

wantsToCreateOrFix(message) ==
  IF \E w \in Greetings94 \cup Questions94 \cup NormalChat94 :
       Includes(ToLowerCase(message), w) /\ Len(ToLowerCase(message)) < ChatLength
  THEN FALSE
  ELSE IF \E w \in ErrorWords94 : Includes(ToLowerCase(message), w) THEN FALSE
  ELSE IF \E w \in CreateKeywords94 : Includes(ToLowerCase(message), w) THEN TRUE
  ELSE Includes(ToLowerCase(message), "delete") \/ Includes(ToLowerCase(message), "remove")

Parse94(req, out) ==
  IF out.k = "json" THEN out.val
  ELSE IF wantsToCreateOrFix(req.prompt)
       THEN [MsgBody("I'll help you with that! The AI had a hiccup.")
               EXCEPT !.plan = ArrPlan(<<>>)]
       ELSE MsgBody("Hey there! I'm Acidnade AI. How can I help you today?")

After94(req, out) ==
  IF out.k = "throw" THEN ApiErrorReply(V94)
  ELSE IF out.k = "noresp"
  THEN Reply(200, MsgBody("Ready to help! What would you like me to build?"))
  ELSE IF out.k = "notext"
  THEN Reply(200, MsgBody("Hi! I'm Acidnade AI. Ready to create with you!"))
  ELSE LET d0 == Parse94(req, out)
           d1 == IF ~Truthy(d0.message)
                 THEN SetMessage(d0, "Ready to build! What would you like me to create?")
                 ELSE d0
           d2 == IF PlanTruthy(d1.plan) /\ ~PlanIsArray(d1.plan)
                 THEN SetPlan(d1, ArrPlan(<<>>))
                 ELSE d1
       IN IF d0.kind = "null" THEN CatchReply(V94) ELSE Reply(200, Serialise(d2))

\* ------------------------------------------------------------------- v13.0
\* the keyword-selected plan of the decode fallback
FallbackPlan130(p) ==
  IF Includes(p, "combo") \/ Includes(p, "hit") \/ Includes(p, "attack")
  THEN ComboPlan("ComboEvent", "ComboHandler", "ComboClient")
  ELSE IF Includes(p, "ui") \/ Includes(p, "gui") \/ Includes(p, "menu")
            \/ Includes(p, "interface")
  THEN << Step(1, "Create dynamic UI system with LocalScript", "create", "LocalScript",
               "UISystem", "game.StarterPlayer.StarterPlayerScripts", JObj) >>
  ELSE << ScriptStep("Create requested system", "SystemCreator") >>

Parse130(req, out) ==
  IF out.k = "json" THEN out.val
  ELSE [PlanBody("Creating your complete system!", FallbackPlan130(req.prompt), JTrue)
          EXCEPT !.needsApproval = JFalse]

After130(req, out) ==
  IF out.k = "throw" THEN ApiErrorReply(V130)
  ELSE LET d0 == Parse130(req, out)
           d1 == SetApproval(SetAuto(d0, JTrue), JFalse)
           d2 == IF ~PlanTruthy(d1.plan) \/ ~PlanIsArray(d1.plan) \/ Len(d1.plan.steps) = 0
                 THEN SetPlan(d1, ArrPlan(<<ScriptStep("Creating your system",
                                                       "SystemCreator")>>))
                 ELSE d1
           d3 == IF Truthy(d2.message) /\ MessageSuggests(d2.message)
                 THEN SetMessage(d2, "Creating your complete system now!")
                 ELSE d2
       IN IF \/ d0.kind = "null"
             \/ (Truthy(d0.message) /\ ~IsString(d0.message))
             \/ d0.kind = "primitive"
          THEN CatchReply(V130)
          ELSE Reply(200, Serialise(SetStepsTotal(d3, Len(d3.plan.steps))))

\* ---------------------------------------------------------------- ULTIMATE
FallbackPlanULT(p) ==
  IF Includes(p, "combo") \/ Includes(p, "hit") \/ Includes(p, "attack")
  THEN ComboPlan("ComboRemote", "ComboServer", "ComboClient")
  ELSE IF Includes(p, "shop") \/ Includes(p, "store") \/ Includes(p, "buy")
  THEN << Step(1, "Create shop LocalScript in StarterPlayerScripts", "create",
               "LocalScript", "ShopSystem", "game.StarterPlayer.StarterPlayerScripts",
               JObj) >>
  ELSE << ScriptStep("Create Luau system component", "LuauSystem") >>

ParseULT(req, out) ==
  IF out.k = "json" THEN out.val
  ELSE [PlanBody("Luau expert creating your system!", FallbackPlanULT(req.prompt), JTrue)
          EXCEPT !.needsApproval = JFalse]

\* step descriptions of the model: stepDesc.includes('ui') || 'gui' ||
\* 'interface' || 'screen' after toLowerCase
DescUI == "Build the menu GUI"
DescPlain == "Add a door"

DescMentionsUI(desc) ==
  desc \in {DescUI, "Create dynamic UI system with LocalScript",
            "Create LocalScript for combo input"}

\* `${step.description} (Luau expert: UI via StarterPlayerScripts)`
AnnotateULT(desc) ==
  IF IsString(desc) THEN desc \o " (Luau expert: UI via StarterPlayerScripts)"
  ELSE "undefined (Luau expert: UI via StarterPlayerScripts)"

\* the data.plan.map callback
RewriteULT(st) ==
  LET isUI == (IsString(st.description) /\ DescMentionsUI(st.description))
                \/ st.className \in UIClassesULT
  IN IF isUI /\ st.className # "LocalScript"
     THEN [st EXCEPT !.kind = "object",
                     !.className = "LocalScript",
                     !.parentPath = "game.StarterPlayer.StarterPlayerScripts",
                     !.description = AnnotateULT(st.description)]
     ELSE st

\* step.description?.toLowerCase() throws on a null step and on a description
\* that is neither a string nor null/undefined
MapThrowsULT(steps) ==
  \E i \in 1..Len(steps) :
    \/ steps[i].kind = "null"
    \/ (steps[i].description \notin {Undef, Null} /\ ~IsString(steps[i].description))

EnforceULT(d) ==
  LET steps == [i \in 1..Len(d.plan.steps) |-> RewriteULT(d.plan.steps[i])]
  IN SetApproval(SetAuto(SetStepsTotal(SetPlan(d, ArrPlan(steps)), Len(steps)),
                         JTrue), JFalse)

AfterULT(req, out) ==
  IF out.k = "throw" THEN ApiErrorReply(VULT)
  ELSE LET d0 == ParseULT(req, out)
           d1 == IF PlanIsArray(d0.plan) THEN EnforceULT(d0) ELSE d0
           d2 == IF ~Truthy(d1.message) \/ MessageSuggests(d1.message)
                 THEN SetMessage(d1, "Luau expert creating your system!")
                 ELSE d1
       IN IF \/ d0.kind = "null"
             \/ (PlanIsArray(d0.plan) /\ MapThrowsULT(d0.plan.steps))
             \/ (Truthy(d0.message) /\ ~IsString(d0.message))
          THEN CatchReply(VULT)
          ELSE Reply(200, Serialise(d2))

\* ------------------------------------------------------------------- v17.0
shouldGiveIdeas170(p) ==
  LET wantsOnlyIdeas ==
        /\ \/ Includes(p, "give me ideas") \/ Includes(p, "suggest")
           \/ Includes(p, "what could i") \/ Includes(p, "what should i")
           \/ Includes(p, "ideas for") \/ Includes(p, "suggestions for")
        /\ ~Includes(p, "create") /\ ~Includes(p, "make")
        /\ ~Includes(p, "add") /\ ~Includes(p, "build")
      isPureQuestion ==
        /\ \/ StartsWith(p, "what is") \/ StartsWith(p, "how does")
           \/ StartsWith(p, "why does") \/ StartsWith(p, "explain")
           \/ StartsWith(p, "tell me about")
        /\ ~Includes(p, "create") /\ ~Includes(p, "make")
  IN wantsOnlyIdeas \/ isPureQuestion

Parse170(out) ==
  IF out.k = "json" THEN out.val ELSE PlanBody("I'll create that for you!", <<>>, JTrue)

\* the plan branch after addToCreationLog; cu is session.canUndo as read at
\* the end of the branch
Enforce170(d, cu) ==
  LET steps == d.plan.steps
      n == DeletionCount(steps)
      d1 == SetStepsTotal(d, Len(steps))
      d2 == IF d1.autoExecute = Undef THEN SetAuto(d1, JTrue) ELSE d1
      d3 == IF n >= DeleteThreshold
            THEN SetAuto(SetApproval(d2, JTrue), JFalse)
            ELSE SetApproval(d2, JFalse)
      kept == FilterSteps(steps, UIClasses170)
      d4 == SetStepsTotal(SetPlan(d3, ArrPlan(kept)), Len(kept))
  IN SetCanUndo(d4, JBool(cu \/ Len(kept) > 0))

\* cu0 is the canUndo flag of the session held by the request, before it logs
After170(req, out, cu0) ==
  IF out.k = "throw" THEN Effect(ApiErrorReply(V170))
  ELSE IF out.k \in {"notext", "noresp"}
  THEN Effect(Reply(200, PlanBody("Error processing response.", <<>>, JTrue)))
  ELSE LET d0 == Parse170(out)
           d1 == IF ~Truthy(d0.message) THEN SetMessage(d0, "Done!") ELSE d0
           d2 == IF ~shouldGiveIdeas170(req.prompt) /\ PlanMissingOrEmpty(d1.plan)
                 THEN SetMessage(d1, "I should have executed that. Please rephrase.")
                 ELSE d1
           logged == PlanIsArray(d2.plan) /\ Len(d2.plan.steps) > 0
           cu == IF logged /\ Truthy(req.sessionId) THEN TRUE ELSE cu0
           kept == FilterSteps(d2.plan.steps, UIClasses170)
       IN IF d0.kind = "null" THEN Effect(CatchReply(V170))
          ELSE IF ~PlanIsArray(d2.plan) THEN Effect(Reply(200, Serialise(d2)))
          ELSE IF HasNullStep(d2.plan.steps)
               THEN [Effect(CatchReply(V170)) EXCEPT !.log = <<d2.plan.steps>>]
               ELSE [Effect(Reply(200, Serialise(Enforce170(d2, cu))))
                       EXCEPT !.log = IF logged THEN <<kept>> ELSE <<>>]

\* ------------------------------------------------------------------- v17.1
shouldGiveIdeas171(p) ==
  LET wantsOnlyIdeas ==
        /\ \/ Includes(p, "give me ideas") \/ Includes(p, "suggest")
           \/ Includes(p, "what could i") \/ Includes(p, "ideas for")
        /\ ~Includes(p, "create") /\ ~Includes(p, "make")
        /\ ~Includes(p, "fix") /\ ~Includes(p, "modify")
      isPureQuestion ==
        /\ \/ StartsWith(p, "what is") \/ StartsWith(p, "how does")
           \/ StartsWith(p, "explain")
        /\ ~Includes(p, "create") /\ ~Includes(p, "make")
  IN wantsOnlyIdeas \/ isPureQuestion

Parse171(out) ==
  IF out.k = "json" THEN out.val
  ELSE PlanBody("I tried to create code but the format failed. Try again.", <<>>, JFalse)

Enforce171(d, cu) ==
  LET steps == d.plan.steps
      n == DeletionCount(steps)
      d1 == SetStepsTotal(d, Len(steps))
      d2 == SetAuto(d1, Coalesce(d1.autoExecute, JTrue))
      d3 == IF n >= DeleteThreshold
            THEN SetAuto(SetApproval(d2, JTrue), JFalse)
            ELSE d2
      kept == FilterSteps(steps, UIClasses171)
      d4 == SetPlan(d3, ArrPlan(kept))
  IN SetCanUndo(d4, JBool(cu \/ Len(kept) > 0))

After171(req, out, cu0) ==
  IF out.k = "throw" THEN Effect(ApiErrorReply(V171))
  ELSE IF out.k \in {"notext", "noresp"}
  THEN Effect(Reply(200, PlanBody("Error processing response.", <<>>, JTrue)))
  ELSE LET d0 == Parse171(out)
           d2 == IF ~shouldGiveIdeas171(req.prompt) /\ PlanMissingOrEmpty(d0.plan)
                 THEN SetMessage(d0, "I couldn't generate a plan.")
                 ELSE d0
           logged == PlanIsArray(d2.plan) /\ Len(d2.plan.steps) > 0
           cu == IF logged /\ Truthy(req.sessionId) THEN TRUE ELSE cu0
           kept == FilterSteps(d2.plan.steps, UIClasses171)
       IN IF d0.kind = "null" THEN Effect(CatchReply(V171))
          ELSE IF ~PlanIsArray(d2.plan) THEN Effect(Reply(200, Serialise(d2)))
          ELSE IF HasNullStep(d2.plan.steps)
               THEN [Effect(CatchReply(V171)) EXCEPT !.log = <<d2.plan.steps>>]
               ELSE [Effect(Reply(200, Serialise(Enforce171(d2, cu))))
                       EXCEPT !.log = IF logged THEN <<kept>> ELSE <<>>]

\* ------------------------------------------------------------------- v10.4
StarterPlayerScripts == "game.StarterPlayer.StarterPlayerScripts"

\* step.parentPath.includes("StarterPlayer") over the paths of the model
PathInStarterPlayer(path) ==
  path \in {StarterPlayerScripts, "game.StarterPlayer.StarterCharacterScripts"}

\* step.name.replace("Gui", "Client").replace("Frame", "Client")
\*          .replace("Label", "Client").replace("Button", "Client")
\* over the names of the model
NameReplace104(n) ==
  CASE n = "MainGui" -> "MainClient"
    [] n = "ShopFrame" -> "ShopClient"
    [] OTHER -> n

\* "Create UI elements programmatically: " + step.description
Describe104(desc) ==
  "Create UI elements programmatically: " \o (IF IsString(desc) THEN desc ELSE "undefined")

\* a callback without `if (!step.type) step.type = "create"`
ProcessStep104_NoTypeDefault(st) ==
  IF st.kind = "primitive" THEN st ELSE
  LET s2 == IF st.className \in UIClasses104
            THEN [st EXCEPT !.className = "LocalScript",
                            !.name = NameReplace104(st.name),
                            !.parentPath = StarterPlayerScripts,
                            !.description = Describe104(st.description)]
            ELSE st
  IN IF s2.className = "LocalScript" /\ ~PathInStarterPlayer(s2.parentPath)
     THEN [s2 EXCEPT !.parentPath = StarterPlayerScripts]
     ELSE s2

\* a callback without "Force LocalScripts to StarterPlayerScripts" (used to
\* test C23)
ProcessStep104_KeepsPath(st) ==
  IF st.kind = "primitive" THEN st ELSE
  LET s1 == IF ~Truthy(st.type) THEN [st EXCEPT !.type = "create"] ELSE st
  IN IF s1.className \in UIClasses104
     THEN [s1 EXCEPT !.className = "LocalScript",
                     !.name = NameReplace104(s1.name),
                     !.parentPath = StarterPlayerScripts,
                     !.description = Describe104(s1.description)]
     ELSE s1

\* one round of data.plan.forEach: the step as it is left in the plan; the
\* assignments to a primitive step are ignored
ProcessStep104(st) ==
  IF st.kind = "primitive" THEN st ELSE
  LET s1 == IF ~Truthy(st.type) THEN [st EXCEPT !.type = "create"] ELSE st
      s2 == IF s1.className \in UIClasses104
            THEN [s1 EXCEPT !.className = "LocalScript",
                            !.name = NameReplace104(s1.name),
                            !.parentPath = StarterPlayerScripts,
                            !.description = Describe104(s1.description)]
            ELSE s1
  IN IF s2.className = "LocalScript" /\ ~PathInStarterPlayer(s2.parentPath)
     THEN [s2 EXCEPT !.parentPath = StarterPlayerScripts]
     ELSE s2

\* the callback throws a TypeError: a null step, step.name.replace on a name
\* that is not a string, step.parentPath.includes on a path that is not one
StepThrows104(st) ==
  \/ st.kind = "null"
  \/ (st.className \in UIClasses104 /\ ~IsString(st.name))
  \/ (st.className = "LocalScript" /\ ~IsString(st.parentPath))

\* the entry pushed on session.previousSteps
PrevEntry(st) ==
  [description |-> st.description, type |-> st.type, name |-> st.name,
   parentPath |-> st.parentPath]

ChatCap == 20
PrevCap == 15

\* arr.slice(-n)
LastN(arr, n) == IF Len(arr) > n THEN SubSeq(arr, Len(arr) - n + 1, Len(arr)) ELSE arr

RECURSIVE ForEach104(_, _, _)
\* data.plan.forEach: done is the processed prefix, prev the entries pushed so
\* far; thrown tells that the callback threw at the head of steps
ForEach104(steps, done, prev) ==
  IF steps = <<>> THEN [thrown |-> FALSE, steps |-> done, prev |-> prev]
  ELSE IF StepThrows104(Head(steps)) THEN [thrown |-> TRUE, steps |-> done, prev |-> prev]
  ELSE LET st == ProcessStep104(Head(steps))
       IN ForEach104(Tail(steps), Append(done, st),
                     IF st.type # "delete" THEN Append(prev, PrevEntry(st)) ELSE prev)

Parse104(out) ==
  IF out.k = "json" THEN out.val
  ELSE MsgBody("I'll help you create that game! All UI is created inside a LocalScript.")

After104(req, out) ==
  IF out.k = "throw" THEN Effect(ApiErrorReply(V104))
  ELSE IF out.k = "noresp"
  THEN Effect(Reply(200, MsgBody("Ready to help with your game!")))
  ELSE IF out.k = "notext"
  THEN Effect(Reply(200, MsgBody("Hi there! What game would you like to make?")))
  ELSE LET d0 == Parse104(out)
           d1 == IF ~Truthy(d0.message)
                 THEN SetMessage(d0, "Creating your game with proper UI setup!")
                 ELSE d0
           d2 == SetStepsTotal(d1, Len(d1.plan.steps))
           d3 == IF Len(d2.plan.steps) >= 3 /\ d2.needsApproval = Undef
                 THEN SetApproval(d2, JTrue)
                 ELSE d2
           run == ForEach104(d1.plan.steps, <<>>, <<>>)
           chat == <<[role |-> "assistant", content |-> d1.message]>>
       IN IF d0.kind = "null" THEN Effect(CatchReply(V104))
          ELSE IF ~PlanIsArray(d1.plan)
               THEN [Effect(Reply(200, Serialise(d1))) EXCEPT !.chat = chat, !.saved = TRUE]
               ELSE IF run.thrown
                    THEN [Effect(CatchReply(V104)) EXCEPT !.chat = chat, !.prev = run.prev]
                    ELSE [Effect(Reply(200, Serialise(SetPlan(d3, ArrPlan(run.steps)))))
                            EXCEPT !.chat = chat, !.prev = run.prev, !.saved = TRUE]

\* ------------------------------------------------------------------- v18.0
\* `Step${index + 1}_${Date.now()}`: the clock value is left symbolic
StepName180(i) == "Step" \o ToString(i) \o "_now"

\* a callback that keeps the step number the generated step came with
Coerce180_KeepsStep(st, i) ==
  [kind |-> "object",
   step |-> IF st.step = Absent THEN i ELSE st.step,
   description |-> OrElse(st.description, "Step " \o ToString(i)),
   type |-> OrElse(st.type, "create"),
   className |-> OrElse(st.className, "Script"),
   name |-> OrElse(st.name, StepName180(i)),
   parentPath |-> OrElse(st.parentPath, "game.ServerScriptService"),
   properties |-> OrElse(st.properties, JObj)]

\* the data.plan.map callback of plan mode
Coerce180(st, i) ==
  [kind |-> "object",
   step |-> i,
   description |-> OrElse(st.description, "Step " \o ToString(i)),
   type |-> OrElse(st.type, "create"),
   className |-> OrElse(st.className, "Script"),
   name |-> OrElse(st.name, StepName180(i)),
   parentPath |-> OrElse(st.parentPath, "game.ServerScriptService"),
   properties |-> OrElse(st.properties, JObj)]

CoercePlan180(steps) == [i \in 1..Len(steps) |-> Coerce180(steps[i], i)]

FallbackIdeas180 ==
  [MsgBody("Here are 3 ideas for your request:") EXCEPT !.type = "ideas"]

FallbackBody180 ==
  [PlanBody("I'll implement your idea in 3 steps:", FallbackPlan18, Undef)
     EXCEPT !.type = "plan", !.totalSteps = 3]

\* `mode = 'ideas'` in the destructuring: the default replaces undefined only
Mode180(req) == IF req.mode = Undef THEN "ideas" ELSE req.mode

SetTotalSteps(d, v) == IF d.kind = "primitive" THEN d ELSE [d EXCEPT !.totalSteps = v]

After180(req, out) ==
  IF out.k \in {"throw", "noresp", "notext"} THEN Effect(CatchReply(V180))
  ELSE IF Mode180(req) = "ideas"
  THEN IF out.k = "garbage" \/ out.val.kind = "null"
       THEN Effect(Reply(200, FallbackIdeas180))
       ELSE [Effect(Reply(200, Serialise(SetType(out.val, "ideas")))) EXCEPT !.ideas = TRUE]
  ELSE IF out.k = "garbage" \/ out.val.kind = "null"
            \/ (PlanIsArray(out.val.plan) /\ HasNullStep(out.val.plan.steps))
       THEN Effect(Reply(200, FallbackBody180))
       ELSE LET d1 == SetType(out.val, "plan")
                d2 == SetTotalSteps(d1, IF PlanTruthy(d1.plan) THEN PlanLength(d1.plan) ELSE 0)
                d3 == IF PlanIsArray(d2.plan)
                      THEN SetPlan(d2, ArrPlan(CoercePlan180(d2.plan.steps)))
                      ELSE d2
            IN [Effect(Reply(200, Serialise(d3))) EXCEPT !.lastPlan = <<d3.plan>>]

\* ------------------------------------------------------------ formatContext
\* A member of the snapshot where the handlers expect a list: k is the kind
\* of JavaScript value found there, items its elements when it is an array.
NoList == [k |-> "undefined", items |-> <<>>]
Arr(items) == [k |-> "array", items |-> items]

\* the string "abc", the object {} and the number 7 in the place of a list
StrList == [k |-> "string", items |-> <<>>]
ObjList == [k |-> "object", items |-> <<>>]
NumList == [k |-> "number", items |-> <<>>]

\* x.length: a number for an array and for "abc", undefined (Absent) otherwise
ListLength(l) ==
  CASE l.k = "array" -> Len(l.items)
    [] l.k = "string" -> 3
    [] OTHER -> Absent

\* An element of such a list.  kind tells an object from null, from a number
\* (7) and from a string ("hi"); the members of a primitive read as undefined.
Elem ==
  [kind |-> "object", Name |-> Undef, name |-> Undef, ClassName |-> Undef,
   className |-> Undef, Path |-> Undef, path |-> Undef, Source |-> Undef,
   Type |-> Undef, parentPath |-> Undef, Step |-> Undef, description |-> Undef,
   role |-> Undef, content |-> Undef, children |-> NoList]

NullElem == [Elem EXCEPT !.kind = "null"]
NumElem == [Elem EXCEPT !.kind = "number"]
StrElem == [Elem EXCEPT !.kind = "string"]

\* context.project.Statistics and context.project
NoStats == [kind |-> "undefined", TotalScripts |-> Undef, TotalUI |-> Undef,
            TotalInstances |-> Undef]
NoProject == [kind |-> "undefined", Statistics |-> NoStats, ScriptDetails |-> NoList]

\* the snapshot: kind "undefined" is a request without context, "number" the
\* truthy primitive 7, whose members all read as undefined
NoContext ==
  [kind |-> "undefined", project |-> NoProject, selectedObjects |-> NoList,
   createdInstances |-> NoList, chatHistory |-> NoList, hierarchy |-> NoList,
   created |-> NoList, selected |-> NoList]

Context == [NoContext EXCEPT !.kind = "object"]

\* the outcome of a call: the returned string, or a TypeError
Ok(t) == [k |-> "ok", text |-> t]
TypeError == [k |-> "throw", text |-> ""]

\* a; b
Then(a, b) ==
  IF a.k = "throw" THEN a ELSE IF b.k = "throw" THEN b ELSE Ok(a.text \o b.text)

RECURSIVE Join(_)
\* the callbacks of forEach in order
Join(rs) == IF rs = <<>> THEN Ok("") ELSE Then(Head(rs), Join(Tail(rs)))

\* `${v}` in a template literal
Tpl(v) ==
  CASE v = Undef -> "undefined"
    [] v = Null -> "null"
    [] v = JNum -> "7"
    [] v = JZero -> "0"
    [] v = JTrue -> "true"
    [] v = JFalse -> "false"
    [] v = JObj -> "[object Object]"
    [] OTHER -> v

\* the Statistics lines (the pictographs and bullets of the literals are
\* left out of the texts of the model)
StatsText(v, p) ==
  IF p.kind # "object" \/ p.Statistics.kind # "object" THEN ""
  ELSE LET s == Tpl(OrElse(p.Statistics.TotalScripts, JZero))
           u == Tpl(OrElse(p.Statistics.TotalUI, JZero))
           n == Tpl(OrElse(p.Statistics.TotalInstances, JZero))
       IN CASE v \in {V94, V104} ->
                 "- Scripts: " \o s \o "\n- UI Elements: " \o u
                   \o "\n- Total Instances: " \o n \o "\n"
            [] v = V130 -> "- Scripts: " \o s \o "\n- UI Elements: " \o u \o "\n"
            [] v = V171 -> "Stats: " \o s \o " Scripts, " \o u \o " UI Elements\n"
            [] v = V180 -> "Statistics:\n- Scripts: " \o s \o "\n- UI Elements: " \o u
                             \o "\n- Total Instances: " \o n \o "\n\n"
            [] OTHER -> "Scripts: " \o s \o ", UI: " \o u \o "\n"

\* the callback over ScriptDetails: script.Name of null is a TypeError (the
\* code fence of the literals, three backquotes, is written ~~~)
ScriptLine(v, e, i) ==
  IF e.kind = "null" THEN TypeError
  ELSE IF v = V171
  THEN Ok("- [" \o Tpl(e.Type) \o "] \"" \o Tpl(e.Name) \o "\" at " \o Tpl(e.Path) \o "\n"
            \o (IF Truthy(e.Source)
                THEN "  CONTENT:\n~~~lua\n" \o Tpl(e.Source) \o "\n~~~\n" ELSE ""))
  ELSE Ok("- " \o Tpl(e.Name) \o " (" \o Tpl(e.Type) \o ")"
            \o (IF v = VULT THEN " at " ELSE " in ") \o Tpl(e.Path) \o "\n")

\* the callback over selectedObjects (context.selected in v9.4); sources of
\* the model are one short line, so the 20-line preview of v18.0 is the source
SelectedLine(v, e, i) ==
  IF e.kind = "null" THEN TypeError
  ELSE IF v = V180
  THEN Ok(ToString(i) \o ". [" \o Tpl(e.ClassName) \o "] \"" \o Tpl(OrElse(e.Name, e.name))
            \o "\"\n   Path: " \o Tpl(OrElse(OrElse(e.Path, e.path), "Unknown")) \o "\n"
            \o (IF Truthy(e.Source) /\ IsString(e.Source)
                THEN "   Current Source Code:\n   ~~~lua\n" \o e.Source \o "\n   ~~~\n"
                ELSE "")
            \o "\n")
  ELSE IF v = V171
  THEN Ok("> [" \o Tpl(e.ClassName) \o "] " \o Tpl(OrElse(e.Name, e.name)) \o "\n"
            \o (IF Truthy(e.Source)
                THEN "  CURRENT CODE:\n~~~lua\n" \o Tpl(e.Source) \o "\n~~~\n" ELSE ""))
  ELSE Ok("- " \o Tpl(OrElse(e.Name, e.name)) \o " ("
            \o Tpl(OrElse(e.ClassName, e.className)) \o ")\n")

\* the callback over createdInstances (context.created in v9.4)
CreatedLine(v, e, i) ==
  IF e.kind = "null" THEN TypeError
  ELSE IF v = V94
  THEN Ok("- " \o Tpl(OrElse(OrElse(e.Step, e.description), "Unknown")) \o "\n")
  ELSE Ok("- " \o Tpl(e.name) \o " (" \o Tpl(e.className) \o ")"
            \o (IF v = V104 THEN " in " \o Tpl(OrElse(e.parentPath, "unknown"))
                ELSE " at " \o Tpl(e.parentPath)) \o "\n")

\* `msg.content?.substring(0, n) || '...'`: a content that is neither a
\* string nor nullish has no substring; the strings of the model are shorter
\* than n
ContentText(c) ==
  IF c \in {Undef, Null} THEN Ok("...")
  ELSE IF ~IsString(c) THEN TypeError
  ELSE Ok(OrElse(c, "..."))

\* the callback over chatHistory (v9.4, v10.4): typeof null is 'object'
ChatLine(v, e, i) ==
  IF e.kind = "null" THEN TypeError
  ELSE IF e.kind = "object"
  THEN Then(Ok(IF v = V104 THEN (IF e.role = "user" THEN "You" ELSE "AI") \o ": "
               ELSE Tpl(OrElse(e.role, "user")) \o ": "),
            Then(ContentText(e.content), Ok("\n")))
  ELSE IF v = V104 THEN Ok("")
  ELSE IF e.kind = "string" THEN Ok("hi\n")
  ELSE TypeError

\* the forEach callbacks by name
Callback(v, cb, e, i) ==
  CASE cb = "script" -> ScriptLine(v, e, i)
    [] cb = "selected" -> SelectedLine(v, e, i)
    [] cb = "created" -> CreatedLine(v, e, i)
    [] cb = "chat" -> ChatLine(v, e, i)

\* `if (x && x.length > 0) { text += header; x.slice(-n).forEach(line) }`,
\* without the slice when n is Absent: "abc" has a length but no forEach; cb
\* names the callback
Section(v, l, n, header, cb) ==
  IF ListLength(l) <= 0 THEN Ok("")
  ELSE IF l.k # "array" THEN TypeError
  ELSE LET sel == IF n = Absent THEN l.items ELSE LastN(l.items, n)
       IN Then(Ok(header), Join([i \in 1..Len(sel) |-> Callback(v, cb, sel[i], i)]))

\* v9.1: `for (const svc of context.hierarchy.slice(0, 5))`: {} and 7 have no
\* slice, "abc" is iterated by character, and `svc && svc.name` skips null
\* and the primitives
HierarchyLine(e) ==
  IF e.kind = "object" /\ Truthy(e.name)
  THEN "- " \o Tpl(e.name) \o ": "
         \o (IF ListLength(e.children) > 0 THEN ToString(ListLength(e.children)) ELSE "0")
         \o " items\n"
  ELSE ""

RECURSIVE HierarchyText(_)
HierarchyText(items) ==
  IF items = <<>> THEN "" ELSE HierarchyLine(Head(items)) \o HierarchyText(Tail(items))

Hierarchy(l) ==
  CASE l.k = "undefined" -> Ok("")
    [] l.k = "array" -> Ok(HierarchyText(SubSeq(l.items, 1, IF Len(l.items) < 5
                                                            THEN Len(l.items) ELSE 5)))
    [] l.k = "string" -> Ok("")
    [] OTHER -> TypeError

\* `(${x.length})` of the headers that count
Count(l) == ToString(ListLength(l))

\* formatContext(context) of variant v
formatContext(v, c) ==
  IF c.kind \in {"undefined", "null"}
  THEN Ok(IF v = V180 THEN "No context provided." ELSE "Empty workspace.")
  ELSE LET stats == Ok(StatsText(v, c.project))
           scripts == c.project.ScriptDetails
           Script == "script"
           Selected == "selected"
           Created == "created"
           Chat == "chat"
       IN CASE v = V91 -> Then(Ok("WORKSPACE:\n"), Hierarchy(c.hierarchy))
            [] v = V94 ->
                 Then(Ok("WORKSPACE INFO:\n"), Then(stats,
                 Then(Section(v, c.created, 5, "\nRECENTLY CREATED (" \o Count(c.created)
                                              \o "):\n", Created),
                 Then(Section(v, c.selected, Absent, "\nCURRENT SELECTION ("
                                \o Count(c.selected) \o "):\n", Selected),
                      Section(v, c.chatHistory, 5, "\nRECENT CHAT (last "
                                \o (IF ListLength(c.chatHistory) < 5
                                    THEN Count(c.chatHistory) ELSE "5")
                                \o " messages):\n", Chat)))))
            [] v = V104 ->
                 Then(Ok("WORKSPACE STATE:\n"), Then(stats,
                 Then(Section(v, scripts, 15, "\nEXISTING SCRIPTS (" \o Count(scripts)
                                             \o "):\n", Script),
                 Then(Section(v, c.createdInstances, 10, "\nRECENTLY CREATED:\n", Created),
                 Then(Section(v, c.selectedObjects, Absent, "\nSELECTED:\n", Selected),
                      Section(v, c.chatHistory, 6, "\nRECENT CHAT:\n", Chat))))))
            [] v = V130 ->
                 Then(Ok("WORKSPACE SNAPSHOT:\n"), Then(stats,
                 Then(Section(v, scripts, 5, "\nEXISTING SCRIPTS (last 5):\n", Script),
                      Section(v, c.selectedObjects, Absent, "\nSELECTED OBJECTS:\n", Selected))))
            [] v \in {V140, V150} ->
                 Then(Ok("WORKSPACE:\n"), Then(stats,
                 Then(Section(v, scripts, 10, "\nEXISTING SCRIPTS:\n", Script),
                      Section(v, c.selectedObjects, Absent, "\nSELECTED:\n", Selected))))
            [] v = V170 ->
                 Then(Ok("WORKSPACE:\n"), Then(stats,
                 Then(Section(v, scripts, 10, "\nEXISTING SCRIPTS:\n", Script),
                 Then(Section(v, c.selectedObjects, Absent, "\nSELECTED:\n", Selected),
                      Section(v, c.createdInstances, 5, "\nRECENTLY CREATED:\n", Created)))))
            [] v = V171 ->
                 Then(Ok("WORKSPACE CONTEXT:\n"), Then(stats,
                 Then(Section(v, c.selectedObjects, Absent, "\nCurrently Selected Objects:\n",
                              Selected),
                 Then(Section(v, scripts, 10, "\nAll Project Scripts:\n", Script),
                      Section(v, c.createdInstances, 5, "\nRecently Created:\n", Created)))))
            [] v = V180 ->
                 Then(Ok("=== WORKSPACE CONTEXT ===\n\n"), Then(stats,
                      Section(v, c.selectedObjects, Absent, "SELECTED OBJECTS:\n", Selected)))
            [] v = VULT ->
                 Then(Ok("ROBLOX WORKSPACE:\n"), Then(stats,
                 Then(Section(v, scripts, 8, "\nEXISTING:\n", Script),
                      Section(v, c.selectedObjects, Absent, "\nSELECTED:\n", Selected))))

\* ------------------------------------------------------------------- state
\* the number of /ai requests that may await the Generation Client at once
MaxInflight == 2

\* the keys of the sessionData Map that requests of the model can produce:
\* undefined (no sessionId), the literal 'default', and one client id
Keys == {Undef, "default", "s1"}

\* session objects live on a heap, because handlers keep a reference to the
\* object across the await while the Map entry may be deleted or replaced
ObjIds == 1..(Cardinality(Keys) + MaxInflight)
NoObj == 0

\* getSession's object literal (v17.0, v17.1, v18.0) and v10.4's {} after its
\* three `if (!session.x) session.x = []` lines; history and createdInstances
\* are never written and are left out
NewSession ==
  [chatHistory |-> <<>>, previousSteps |-> <<>>, creationLog |-> <<>>,
   canUndo |-> FALSE, lastIdeas |-> Null, lastPlan |-> <<>>]

LogCap == 10

\* the value of API_KEY in the deployments of workloads 1 to 9
ServerKey == "secret"

\* a process: its environment and where it is in its life
Process(apiKey, acidnadeKey, state) ==
  [API_KEY |-> apiKey, ACIDNADE_API_KEY |-> acidnadeKey, state |-> state]

\* a deployment with API_KEY alone, after app.listen
Running == Process(ServerKey, Undef, "listening")

\* a start that goes on to app.listen whatever the environment holds (used to
\* test C29)
Boot_NeverExits(p) == "listening"

\* `if (!process.env.API_KEY) { ...; process.exit(1); }`, else the file runs on
\* to app.listen
Boot(p) == IF ~Truthy(p.API_KEY) THEN "exited" ELSE "listening"

NoRequest ==
  [route |-> "none", key |-> Undef, prompt |-> Undef, sessionId |-> Undef, mode |-> Undef,
   context |-> NoContext]

NoReply ==
  [route |-> "none", req |-> NoRequest, out |-> Thrown, status |-> 0, body |-> Obj,
   calls |-> 0, handled |-> FALSE, prior |-> <<>>, evicted |-> FALSE]

\* no text has been cleaned and parsed yet
NoParse ==
  [called |-> FALSE, wrote |-> <<>>, closed |-> FALSE, text |-> <<>>, cleaned |-> <<>>,
   ok |-> FALSE, value |-> <<>>]

\* the record of cleaning and parsing one text
ParseCall(out) ==
  [called |-> TRUE, wrote |-> out.wrote, closed |-> out.closed, text |-> out.toks,
   cleaned |-> CleanResponse(out.toks),
   ok |-> JSONparse(CleanResponse(out.toks)).ok,
   value |-> JSONparse(CleanResponse(out.toks)).value]

\* no call of formatContext yet
NoFormat == [called |-> FALSE, arg |-> NoContext, out |-> Ok(""), after |-> NoContext]

\* a call of formatContext that writes through slice's result (used to test
\* C20): the chat list of the argument is left cut to what was formatted
FormatCall_CutsArgument(v, arg) ==
  [called |-> TRUE, arg |-> arg, out |-> formatContext(v, arg),
   after |-> [arg EXCEPT !.chatHistory.items = LastN(@, 1)]]

\* formatContext(arg) as the handler of variant v calls it: the function only
\* reads its argument (slice returns a copy)
FormatCall(v, arg) ==
  [called |-> TRUE, arg |-> arg, out |-> formatContext(v, arg), after |-> arg]

VARIABLES
  variant,      \* which server file this process runs
  sessionData,  \* the Map: key -> object id, NoObj when the key is absent
  heap,         \* object id -> session object
  pending,      \* the /ai requests awaiting model.generateContent, in arrival order
  resp,         \* the last response sent, with the request it answers; evicted
                \* records that the request appended to a full creation log
  lastAi,       \* per sessionId: the plan of the last /ai response not yet undone
  formatted,    \* the last call of formatContext: argument, outcome, and the
                \* argument as the call left it
  process,      \* process.env as loaded by dotenv, and whether the process is
                \* starting, listening or has exited
  parsed        \* the last text that was cleaned and parsed piece by piece:
                \* what was written, the text, the cleaned text and the outcome

vars == <<variant, sessionData, heap, pending, resp, lastAi, formatted, process, parsed>>

Init ==
  /\ variant \in Variants
  /\ sessionData = [k \in Keys |-> NoObj]
  /\ heap = [o \in ObjIds |-> NewSession]
  /\ pending = <<>>
  /\ resp = NoReply
  /\ lastAi = [k \in Keys |-> <<>>]
  /\ formatted = NoFormat
  /\ process = Running
  /\ parsed = NoParse

\* an object is live while the Map or a suspended handler refers to it
Live(sd, pend) ==
  {sd[k] : k \in Keys} \cup {pend[i].sref : i \in 1..Len(pend)}

\* a fresh object: the least id that is not live
Alloc(sd, pend) == CHOOSE o \in ObjIds : o \notin Live(sd, pend) /\
                     \A q \in ObjIds : q \notin Live(sd, pend) => o <= q

\* dead objects are garbage: they are reset so that equal states are equal
Collect(h, sd, pend) ==
  [o \in ObjIds |-> IF o \in Live(sd, pend) THEN h[o] ELSE NewSession]

\* removing the i-th element of a sequence
RemoveAt(seq, i) == SubSeq(seq, 1, i - 1) \o SubSeq(seq, i + 1, Len(seq))

\* the top-level code of the file has run
Startup ==
  /\ process.state = "starting"
  /\ process' = [process EXCEPT !.state = Boot(process)]
  /\ UNCHANGED <<variant, sessionData, heap, pending, resp, lastAi, formatted, parsed>>

\* app.listen has run and the process has not exited
Listening == process.state = "listening"

\* process.env.ACIDNADE_API_KEY || process.env.API_KEY, read at each request
serverKey == OrElse(process.ACIDNADE_API_KEY, process.API_KEY)

\* the security middleware: `if (!serverKey) return next()`, then
\* `clientKey !== serverKey` -> 403
KeyOk(req) == ~Truthy(serverKey) \/ req.key = serverKey

\* GET /, /health and /ping skip the key check in these variants only
ExemptVariants == {V91, V130, V104, V94}

Answer(req, out, rep, calls, prior) ==
  [route |-> req.route, req |-> req, out |-> out, status |-> rep.status,
   body |-> rep.body, calls |-> calls, handled |-> TRUE, prior |-> prior,
   evicted |-> FALSE]

\* res.status(403).json({ error: "Invalid API key" }): no handler runs
Forbidden(req) ==
  /\ Listening
  /\ ~KeyOk(req)
  /\ ~(req.route = "GET /health" /\ variant \in ExemptVariants)
  /\ resp' = [route |-> req.route, req |-> req, out |-> Thrown, status |-> 403,
              body |-> [Obj EXCEPT !.error = "Invalid API key"], calls |-> 0,
              handled |-> FALSE, prior |-> <<>>, evicted |-> FALSE]
  /\ UNCHANGED <<variant, process, parsed, sessionData, heap, pending, lastAi, formatted>>

\* GET /health: res.json({ status: "OK", version }); the two members are not
\* members of the body record of the model
Health(req) ==
  /\ Listening
  /\ req.route = "GET /health"
  /\ KeyOk(req) \/ variant \in ExemptVariants
  /\ resp' = Answer(req, Thrown, Reply(200, Obj), 0, <<>>)
  /\ UNCHANGED <<variant, process, parsed, sessionData, heap, pending, lastAi, formatted>>

\* getSession(key): the entry is created on first reference
Ensure(sd, h, pend, key) ==
  IF sd[key] # NoObj THEN [sd |-> sd, heap |-> h, o |-> sd[key]]
  ELSE LET o == Alloc(sd, pend)
       IN [sd |-> [sd EXCEPT ![key] = o], heap |-> [h EXCEPT ![o] = NewSession], o |-> o]

\* a log that, once full, refuses the new entry instead of evicting the oldest
PushLog_DropsNewest(sess, steps) ==
  LET log == Append(sess.creationLog, [plan |-> steps])
  IN [sess EXCEPT !.creationLog = IF Len(log) > LogCap THEN SubSeq(log, 1, LogCap) ELSE log,
                  !.canUndo = TRUE]

\* addToCreationLog(sessionId, planData) on the object o
PushLog(sess, steps) ==
  LET log == Append(sess.creationLog, [plan |-> steps])
  IN [sess EXCEPT !.creationLog = IF Len(log) > LogCap THEN Tail(log) ELSE log,
                  !.canUndo = TRUE]

\* the plan of an /ai response, as the history variable lastAi records it
ReturnedPlan(body) == IF PlanIsArray(body.plan) THEN <<body.plan.steps>> ELSE <<>>

\* the part of the /ai handler after `await model.generateContent`, by variant
AfterAwait(v, req, out, cu0) ==
  CASE v = V91 -> Effect(After91(req, out))
    [] v = V94 -> Effect(After94(req, out))
    [] v = V104 -> After104(req, out)
    [] v = V130 -> Effect(After130(req, out))
    [] v = V140 -> Effect(After140(req, out))
    [] v = V150 -> Effect(After150(req, out))
    [] v = V170 -> After170(req, out, cu0)
    [] v = V171 -> After171(req, out, cu0)
    [] v = V180 -> After180(req, out)
    [] v = VULT -> Effect(AfterULT(req, out))

\* v10.4: `sessionId ? (sessionData.get(sessionId) || {}) : {}`
Session104(req) ==
  IF Truthy(req.sessionId) /\ sessionData[req.sessionId] # NoObj
  THEN sessionData[req.sessionId]
  ELSE Alloc(sessionData, pending)

\* v10.4: session.chatHistory after the push of the prompt and the cut to 20
UserPushed(req) ==
  LastN(Append(heap[Session104(req)].chatHistory, [role |-> "user", content |-> req.prompt]),
        ChatCap)

\* a chat entry of the session as an element of the snapshot
ChatElem(m) == [Elem EXCEPT !.role = m.role, !.content = m.content]

\* the argument of formatContext: req.body.context, and in v10.4
\* { ...context, chatHistory: session.chatHistory }
FormatArg(v, req) ==
  IF v = V104
  THEN [req.context EXCEPT
          !.kind = "object",
          !.chatHistory = Arr([i \in 1..Len(UserPushed(req)) |-> ChatElem(UserPushed(req)[i])])]
  ELSE req.context

\* a TypeError before the await: the catch-all answers, no call is made
Caught(req) ==
  /\ resp' = Answer(req, Thrown, CatchReply(variant), 0, <<>>)
  /\ lastAi' = [lastAi EXCEPT ![req.sessionId] = <<>>]
  /\ UNCHANGED pending

\* POST /ai from the prompt check to the await: the session prelude, the call
\* of formatContext (call) and the call to the Generation Client
Prelude(req, call) ==
  /\ formatted' = call
  /\ IF variant \in {V170, V171, V180}
     THEN LET e == Ensure(sessionData, heap, pending, OrElse(req.sessionId, "default"))
          IN /\ sessionData' = e.sd
             /\ heap' = e.heap
             /\ IF call.out.k = "throw" THEN Caught(req)
                ELSE IF variant = V180 /\ Mode180(req) \notin {"ideas", "plan"}
                THEN /\ resp' = Answer(req, Thrown,
                                       Reply(200, [MsgBody("Invalid mode. Use 'ideas' or 'plan'.")
                                                     EXCEPT !.type = "error"]), 0, <<>>)
                     /\ lastAi' = [lastAi EXCEPT ![req.sessionId] = <<>>]
                     /\ UNCHANGED pending
                ELSE /\ pending' = Append(pending, [req |-> req, sref |-> e.o])
                     /\ UNCHANGED <<resp, lastAi>>
     ELSE IF variant = V104
     THEN LET o == Session104(req)
              h == [heap EXCEPT ![o].chatHistory = UserPushed(req)]
          IN IF call.out.k = "throw"
             THEN \* the push was made on the stored object; a fresh {} is dropped
                  /\ heap' = Collect(h, sessionData, pending)
                  /\ Caught(req)
                  /\ UNCHANGED sessionData
             ELSE LET pend == Append(pending, [req |-> req, sref |-> o])
                      sd == [sessionData EXCEPT ![req.sessionId] = o]
                  IN /\ sessionData' = sd
                     /\ heap' = Collect(h, sd, pend)
                     /\ pending' = pend
                     /\ UNCHANGED <<resp, lastAi>>
     ELSE IF call.out.k = "throw"
     THEN /\ Caught(req)
          /\ UNCHANGED <<sessionData, heap>>
     ELSE /\ pending' = Append(pending, [req |-> req, sref |-> NoObj])
          /\ UNCHANGED <<sessionData, heap, resp, lastAi>>

\* POST /ai up to the await: the prompt check (v9.1 has none), then the
\* prelude (the request joins pending)
AiReceive(req) ==
  /\ Listening
  /\ req.route = "POST /ai"
  /\ KeyOk(req)
  /\ Len(pending) < MaxInflight
  /\ UNCHANGED <<variant, process, parsed>>
  /\ IF variant # V91 /\ PromptThrows(req.prompt)
     THEN /\ resp' = Answer(req, Thrown, CatchReply(variant), 0, <<>>)
          /\ lastAi' = [lastAi EXCEPT ![req.sessionId] = <<>>]
          /\ UNCHANGED <<sessionData, heap, pending, formatted>>
     ELSE IF variant # V91 /\ PromptEmpty(req.prompt)
     THEN /\ resp' = Answer(req, Thrown, Reply(200, PromptingBody(variant)), 0, <<>>)
          /\ lastAi' = [lastAi EXCEPT ![req.sessionId] = ReturnedPlan(PromptingBody(variant))]
          /\ UNCHANGED <<sessionData, heap, pending, formatted>>
     ELSE Prelude(req, FormatCall(variant, FormatArg(variant, req)))

\* the writes of a resumed /ai handler: p is the suspended request, eff what
\* its processing decided, pend the requests still suspended
Settle(p, out, eff, pend) ==
  LET sid == p.req.sessionId
      \* addToCreationLog(sessionId, data): getSession under the raw sessionId
      e == IF eff.log # <<>> THEN Ensure(sessionData, heap, pending, sid)
           ELSE [sd |-> sessionData, heap |-> heap, o |-> NoObj]
      h1 == IF eff.log # <<>>
            THEN [e.heap EXCEPT ![e.o] = PushLog(e.heap[e.o], eff.log[1])]
            ELSE e.heap
      h2 == IF variant = V104
            THEN [h1 EXCEPT ![p.sref].chatHistory = @ \o eff.chat,
                            ![p.sref].previousSteps = LastN(@ \o eff.prev, PrevCap)]
            ELSE h1
      h3 == IF variant = V180
            THEN [h2 EXCEPT ![p.sref].lastIdeas = IF eff.ideas THEN JObj ELSE @,
                            ![p.sref].lastPlan = IF eff.lastPlan # <<>> THEN eff.lastPlan ELSE @]
            ELSE h2
      sd == IF eff.saved THEN [e.sd EXCEPT ![sid] = p.sref] ELSE e.sd
  IN /\ sessionData' = sd
     /\ heap' = Collect(h3, sd, pend)
     /\ pending' = pend
     /\ resp' = [Answer(p.req, out, eff.reply, 1, <<>>)
                   EXCEPT !.evicted = eff.log # <<>>
                                        /\ Len(e.heap[e.o].creationLog) = LogCap]
     /\ lastAi' = [lastAi EXCEPT ![sid] = ReturnedPlan(eff.reply.body)]
     /\ UNCHANGED formatted

\* session.canUndo of the object the suspended handler holds
HeldCanUndo(p) == IF p.sref = NoObj THEN FALSE ELSE heap[p.sref].canUndo

\* POST /ai from the await on: the i-th suspended request gets the outcome out
\* of its Generation Client call, processes it and sends its response
AiResume(i, out) ==
  /\ i \in 1..Len(pending)
  /\ parsed' = IF out.k = "text" THEN ParseCall(out) ELSE parsed
  /\ Settle(pending[i], Cook(out),
            AfterAwait(variant, pending[i].req, Cook(out), HeldCanUndo(pending[i])),
            RemoveAt(pending, i))
  /\ UNCHANGED <<variant, process>>

\* the inverse step that /undo builds for one logged step
UndoStep(st, i) ==
  [kind |-> "object", step |-> i,
   description |-> "Delete " \o (IF IsString(st.name) THEN st.name ELSE "undefined")
                     \o " (undoing)",
   type |-> "delete", className |-> st.className, name |-> st.name,
   parentPath |-> st.parentPath, properties |-> Undef]

UndoPlan(steps) == [i \in 1..Len(steps) |-> UndoStep(steps[i], i)]

UndoMessage(n) == "Undoing last action (" \o ToString(n) \o " items)"

\* a reply of /undo that leaves canUndo out (used to test C15)
UndoBody_NoCanUndo(msg) == MsgBody(msg)

\* { message: msg, canUndo: false }
UndoBody(msg) == [MsgBody(msg) EXCEPT !.canUndo = JFalse]

\* POST /undo (v17.0, v17.1, v18.0)
Undo(req) ==
  /\ Listening
  /\ req.route = "POST /undo"
  /\ variant \in UndoVariants
  /\ KeyOk(req)
  /\ lastAi' = [lastAi EXCEPT ![req.sessionId] = <<>>]
  /\ IF variant \in {V170, V171} /\ ~Truthy(req.sessionId)
     THEN /\ resp' = Answer(req, Thrown, Reply(200, UndoBody("No session ID")), 0,
                            lastAi[req.sessionId])
          /\ UNCHANGED <<sessionData, heap>>
     ELSE LET e == Ensure(sessionData, heap, pending, req.sessionId)
              sess == e.heap[e.o]
              log == sess.creationLog
              lastAction == log[Len(log)]
              rest == SubSeq(log, 1, Len(log) - 1)
          IN /\ sessionData' = e.sd
             /\ IF log = <<>>
                THEN /\ heap' = e.heap
                     /\ resp' = Answer(req, Thrown, Reply(200, UndoBody("Nothing to undo")),
                                       0, lastAi[req.sessionId])
                ELSE IF HasNullStep(lastAction.plan)
                THEN /\ heap' = [e.heap EXCEPT ![e.o].creationLog = rest]
                     /\ resp' = Answer(req, Thrown,
                                       Reply(200, UndoBody("Error processing undo")), 0,
                                       lastAi[req.sessionId])
                ELSE /\ heap' = [e.heap EXCEPT ![e.o].creationLog = rest,
                                               ![e.o].canUndo = Len(rest) > 0]
                     /\ resp' = Answer(req, Thrown,
                          Reply(200, [Obj EXCEPT
                                        !.message = UndoMessage(Len(lastAction.plan)),
                                        !.plan = ArrPlan(UndoPlan(lastAction.plan)),
                                        !.type = IF variant = V180 THEN "plan" ELSE Undef,
                                        !.autoExecute = JFalse,
                                        !.needsApproval = JTrue,
                                        !.canUndo = JBool(Len(rest) > 0)]),
                          0, lastAi[req.sessionId])
  /\ UNCHANGED <<variant, process, parsed, pending, formatted>>

\* POST /get-session of v18.0: getSession under the raw sessionId, then
\* res.json({ lastIdeas, lastPlan, canUndo: session.creationLog.length > 0 });
\* lastPlan is <<>> for null, else the one stored { plan }
GetSession(req) ==
  /\ Listening
  /\ req.route = "POST /get-session"
  /\ variant = V180
  /\ KeyOk(req)
  /\ LET e == Ensure(sessionData, heap, pending, req.sessionId)
         sess == e.heap[e.o]
     IN /\ sessionData' = e.sd
        /\ heap' = e.heap
        /\ resp' = Answer(req, Thrown,
                          Reply(200, [Obj EXCEPT !.lastIdeas = sess.lastIdeas,
                                                 !.lastPlan = sess.lastPlan,
                                                 !.canUndo = JBool(sess.creationLog # <<>>)]),
                          0, <<>>)
  /\ UNCHANGED <<variant, process, parsed, pending, lastAi, formatted>>

\* the variants with POST /session/clear
ClearVariants == {V104}

\* POST /session/clear: `if (sessionId && sessionData.has(sessionId))
\* sessionData.delete(sessionId)`, then res.json({ success: true }), whose
\* member is not a member of the body record of the model
SessionClear(req) ==
  LET sd == IF Truthy(req.sessionId) THEN [sessionData EXCEPT ![req.sessionId] = NoObj]
            ELSE sessionData
  IN /\ Listening
     /\ req.route = "POST /session/clear"
     /\ variant \in ClearVariants
     /\ KeyOk(req)
     /\ sessionData' = sd
     /\ heap' = Collect(heap, sd, pending)
     /\ resp' = Answer(req, Thrown, Reply(200, Obj), 0, <<>>)
     /\ UNCHANGED <<variant, process, parsed, pending, lastAi, formatted>>

\* ---------------------------------------------------------------- requests
AiReqWith(key, prompt, sid, mode, ctx) ==
  [route |-> "POST /ai", key |-> key, prompt |-> prompt, sessionId |-> sid, mode |-> mode,
   context |-> ctx]

\* a POST /ai without context
AiReq(key, prompt, sid, mode) == AiReqWith(key, prompt, sid, mode, NoContext)

UndoReq(key, sid) ==
  [route |-> "POST /undo", key |-> key, prompt |-> Undef, sessionId |-> sid, mode |-> Undef,
   context |-> NoContext]

GetReq(key, sid) ==
  [route |-> "POST /get-session", key |-> key, prompt |-> Undef, sessionId |-> sid,
   mode |-> Undef, context |-> NoContext]

ClearReq(key, sid) ==
  [route |-> "POST /session/clear", key |-> key, prompt |-> Undef, sessionId |-> sid,
   mode |-> Undef, context |-> NoContext]

HealthReq(key) ==
  [route |-> "GET /health", key |-> key, prompt |-> Undef, sessionId |-> Undef, mode |-> Undef,
   context |-> NoContext]

\* ------------------------------------------------------- decoded step shapes
SOk == Step(1, DescPlain, "create", "Script", "Door", "game.ServerScriptService", JObj)
SDel == Step(Absent, DescPlain, "delete", "Part", "Door", "game.Workspace", Undef)
SUi == Step(7, DescUI, "create", "Frame", "ShopFrame", "game.StarterGui", JObj)
SImg == Step(2, DescPlain, "create", "ImageButton", "MainGui", "game.StarterGui", JObj)
SBare == Step(Absent, Undef, Undef, Undef, Undef, Undef, Undef)
SOdd == Step(7, DescPlain, "rename", "LocalScript", "Door", "game.StarterGui", "abc")
SMod == Step(1, DescPlain, "modify", "Script", "Door", "game.ServerScriptService", JNum)

StepShapes == {SOk, SDel, SUi, SImg, SBare, SOdd, SMod, NullStep, PrimStep}

\* all arrays of at most n steps drawn from shapes
Plans(n, shapes) == UNION {[1..k -> shapes] : k \in 0..n}

\* ----------------------------------------- workload 1: one reply, any shape
AnyKey == {ServerKey, "wrong", Undef}

ReqsReply ==
  {AiReq(k, p, sid, m) : k \in AnyKey, p \in {Undef, "", Blank, JNum, PMake, PIdeas, PWhat},
                         sid \in {Undef, "s1"}, m \in {Undef, "plan", "bogus"}}
    \cup {HealthReq(k) : k \in AnyKey}

ValuesReply ==
  {[Obj EXCEPT !.kind = k] : k \in {"null", "primitive", "array"}}
    \cup {[Obj EXCEPT !.message = m, !.plan = pl] :
            m \in {Undef, "", "On it.", MsgIdeas, JNum},
            pl \in {NoPlan, OtherPlan("null"), OtherPlan("string"), OtherPlan("object")}
                     \cup {ArrPlan(st) : st \in Plans(1, {SOk, SBare, NullStep, PrimStep})}}

OutsReply ==
  {Thrown, NoResponse, NoText, Garbage(""), Garbage(TNotJson), Garbage(TIdeas)}
    \cup {Decoded(v) : v \in ValuesReply}

\* the process has answered nothing yet and nothing is in flight
Fresh == resp = NoReply /\ pending = <<>>

NextReply ==
  \/ \E r \in ReqsReply : Fresh /\ AiReceive(r)
  \/ \E o \in OutsReply : AiResume(1, o)
  \/ \E r \in ReqsReply : Fresh /\ Forbidden(r)
  \/ \E r \in ReqsReply : Fresh /\ Health(r)

\* a fresh process answers its first request, with any reply of the client
SpecReply == Init /\ [][NextReply]_vars

\* ------------------------------------- workload 2: one plan, any step shapes
MaxPlanLen == 2

ReqsSteps == {AiReq(ServerKey, PMake, "s1", m) : m \in {Undef, "plan"}}

ValuesSteps ==
  {[Obj EXCEPT !.message = "On it.", !.plan = ArrPlan(st), !.stepsTotal = n] :
     st \in Plans(MaxPlanLen, StepShapes), n \in {Absent, 99}}

OutsSteps == {Decoded(v) : v \in ValuesSteps}

NextSteps ==
  \/ \E r \in ReqsSteps : Fresh /\ AiReceive(r)
  \/ \E o \in OutsSteps : AiResume(1, o)

SpecSteps == Init /\ [][NextSteps]_vars

\* ------------------------------------ workload 3: plans with many deletions
MaxDeletePlan == 5

ReqsDelete == {AiReq(ServerKey, PMake, "s1", "plan")}

ValuesDelete ==
  {[Obj EXCEPT !.message = "On it.", !.plan = ArrPlan(st), !.autoExecute = a,
               !.needsApproval = n] :
     st \in Plans(MaxDeletePlan, {SDel, SOk, SUi}), a \in {Undef, JFalse},
     n \in {Undef, JTrue}}

OutsDelete == {Decoded(v) : v \in ValuesDelete}

NextDelete ==
  \/ \E r \in ReqsDelete : Fresh /\ AiReceive(r)
  \/ \E o \in OutsDelete : AiResume(1, o)

SpecDelete == Init /\ [][NextDelete]_vars

\* --------------------------------------- workload 4: sessions, /ai and /undo
MaxLogged == 2

RECURSIVE LoggedUpTo(_)
\* the number of creation-log entries held by the objects 1..o
LoggedUpTo(o) == IF o = 0 THEN 0 ELSE Len(heap[o].creationLog) + LoggedUpTo(o - 1)

\* clients send a new /ai only while fewer than MaxLogged plans are logged or
\* awaited; /undo is always accepted
Room == LoggedUpTo(Cardinality(ObjIds)) + Len(pending) < MaxLogged

ReqsUndo ==
  {AiReq(ServerKey, PMake, sid, "plan") : sid \in {Undef, "s1"}}
    \cup {UndoReq(ServerKey, sid) : sid \in {Undef, "s1"}}

OutsUndo ==
  {Thrown} \cup
  {Decoded([Obj EXCEPT !.message = "On it.", !.plan = ArrPlan(st)]) :
     st \in {<<>>, <<SOk>>, <<SOk, SMod>>, <<SUi, SOk>>, <<NullStep>>}}

InitUndo == Init /\ variant \in UndoVariants

NextUndo ==
  \/ \E r \in ReqsUndo : Room /\ AiReceive(r)
  \/ \E i \in 1..MaxInflight, o \in OutsUndo : AiResume(i, o)
  \/ \E r \in ReqsUndo : Undo(r)

SpecUndo == InitUndo /\ [][NextUndo]_vars

\* ------------------------------------ workload 5: one session, a long log
\* one client sends its requests one after the other, without end
ReqsLog == {AiReq(ServerKey, PMake, "s1", "plan"), UndoReq(ServerKey, "s1")}

OutsLog ==
  {Decoded([Obj EXCEPT !.message = "On it.", !.plan = ArrPlan(st)]) :
     st \in {<<SOk>>, <<NullStep>>}}

NextLog ==
  \/ \E r \in ReqsLog : pending = <<>> /\ AiReceive(r)
  \/ \E o \in OutsLog : AiResume(1, o)
  \/ \E r \in ReqsLog : pending = <<>> /\ Undo(r)

SpecLog == InitUndo /\ [][NextLog]_vars

\* -------------------------------- workload 6: requests that carry a snapshot
\* elements: every member set, only the lower-case members, a chat entry
\* whose content is the number 7
EFull ==
  [Elem EXCEPT !.Name = "Door", !.name = "door", !.ClassName = "Part", !.className = "part",
               !.Path = "game.Workspace.Door", !.path = "workspace.door",
               !.Source = "print(1)", !.Type = "Script", !.parentPath = "game.Workspace",
               !.Step = "Create door", !.description = "a door", !.role = "user",
               !.content = "hello", !.children = Arr(<<Elem>>)]

ELower == [Elem EXCEPT !.name = "lamp", !.className = "pointlight", !.role = "assistant"]

ENumContent == [Elem EXCEPT !.role = "assistant", !.content = JNum]

\* what a client can send where a list is expected
ListShapes ==
  {Arr(<<>>), Arr(<<EFull>>), Arr(<<NullElem>>), Arr(<<NumElem, StrElem>>),
   Arr(<<ENumContent>>), Arr(<<ELower, EFull, EFull, EFull, EFull, EFull>>),
   StrList, ObjList, NumList}

Stats == [kind |-> "object", TotalScripts |-> JNum, TotalUI |-> Undef, TotalInstances |-> JZero]

\* every list of the snapshot has the shape l
CtxAll(l) ==
  [kind |-> "object",
   project |-> [kind |-> "object", Statistics |-> Stats, ScriptDetails |-> l],
   selectedObjects |-> l, createdInstances |-> l, chatHistory |-> l, hierarchy |-> l,
   created |-> l, selected |-> l]

\* one list of the snapshot has the shape l, the other members are absent
CtxOne(f, l) ==
  IF f = "ScriptDetails"
  THEN [Context EXCEPT !.project = [kind |-> "object", Statistics |-> NoStats,
                                    ScriptDetails |-> l]]
  ELSE [Context EXCEPT ![f] = l]

ListMembers ==
  {"ScriptDetails", "selectedObjects", "createdInstances", "chatHistory", "hierarchy",
   "created", "selected"}

Snapshots ==
  {NoContext, [NoContext EXCEPT !.kind = "null"], [NoContext EXCEPT !.kind = "number"],
   Context, [Context EXCEPT !.project = [NoProject EXCEPT !.kind = "number"]]}
    \cup {CtxAll(l) : l \in ListShapes}
    \cup {CtxOne(f, l) : f \in ListMembers, l \in {Arr(<<EFull>>), Arr(<<NullElem>>), StrList}}

ReqsFormat == {AiReqWith(ServerKey, PMake, "s1", "plan", c) : c \in Snapshots}

\* replies without a plan; the second has a number as its message
OutsFormat == {Decoded([Obj EXCEPT !.message = m]) : m \in {"On it.", JNum}}

\* the chat of a v10.4 session is kept short
MaxFormatChat == 4

ShortChat == \A o \in ObjIds : Len(heap[o].chatHistory) < MaxFormatChat

NextFormat ==
  \/ \E r \in ReqsFormat : pending = <<>> /\ ShortChat /\ AiReceive(r)
  \/ \E o \in OutsFormat : AiResume(1, o)

SpecFormat == Init /\ [][NextFormat]_vars

\* ----------------------- workload 7: v10.4, /ai and /session/clear interleaved
ReqsClear == {AiReq(ServerKey, PMake, "s1", Undef), ClearReq(ServerKey, "s1")}

OutsClear ==
  {Thrown, Decoded([Obj EXCEPT !.message = "On it.", !.plan = ArrPlan(<<SOk>>)])}

InitClear == Init /\ variant \in ClearVariants

NextClear ==
  \/ \E r \in ReqsClear : ShortChat /\ AiReceive(r)
  \/ \E i \in 1..MaxInflight, o \in OutsClear : AiResume(i, o)
  \/ \E r \in ReqsClear : SessionClear(r)

SpecClear == InitClear /\ [][NextClear]_vars

\* ------------------------- workload 8: v10.4, one session, a long conversation
ReqsChat == {AiReq(ServerKey, PMake, "s1", Undef)}

OutsChat ==
  {Decoded([Obj EXCEPT !.message = "On it.", !.plan = ArrPlan(st)]) :
     st \in {<<SOk>>, <<SDel>>, <<SOk, SDel, SMod>>}}

NextChat ==
  \/ \E r \in ReqsChat : pending = <<>> /\ AiReceive(r)
  \/ \E o \in OutsChat : AiResume(1, o)

SpecChat == InitClear /\ [][NextChat]_vars

\* ------------------------- workload 9: v18.0, modes and the stored session
ReqsSession ==
  {AiReq(ServerKey, PMake, sid, mode) :
     sid \in {Undef, "s1"}, mode \in {Undef, "plan", "bogus"}}
    \cup {GetReq(ServerKey, sid) : sid \in {Undef, "s1"}}

OutsSession ==
  {Thrown, Garbage(TNotJson)} \cup
  {Decoded([Obj EXCEPT !.message = "On it.", !.plan = ArrPlan(st)]) :
     st \in {<<>>, <<SOk>>, <<SBare>>, <<NullStep>>}}

InitSession == Init /\ variant = V180

NextSession ==
  \/ \E r \in ReqsSession : pending = <<>> /\ AiReceive(r)
  \/ \E o \in OutsSession : AiResume(1, o)
  \/ \E r \in ReqsSession : pending = <<>> /\ GetSession(r)

SpecSession == InitSession /\ [][NextSession]_vars

\* ------------------- workload 10: any environment, from the start of the file
\* what dotenv and the host can leave in a variable: nothing, the empty
\* string, or a key
EnvValues == {Undef, "", ServerKey, "other"}

ReqsKey ==
  {AiReq(k, "", Undef, Undef) : k \in EnvValues \cup {"wrong"}}
    \cup {HealthReq(k) : k \in EnvValues \cup {"wrong"}}
    \cup {UndoReq(k, "s1") : k \in EnvValues \cup {"wrong"}}

InitKey ==
  /\ variant \in Variants
  /\ sessionData = [k \in Keys |-> NoObj]
  /\ heap = [o \in ObjIds |-> NewSession]
  /\ pending = <<>>
  /\ resp = NoReply
  /\ lastAi = [k \in Keys |-> <<>>]
  /\ formatted = NoFormat
  /\ process \in {Process(a, b, "starting") : a \in EnvValues, b \in EnvValues}
  /\ parsed = NoParse

NextKey ==
  \/ Startup
  \/ \E r \in ReqsKey : AiReceive(r)
  \/ \E r \in ReqsKey : Undo(r)
  \/ \E r \in ReqsKey : Health(r)
  \/ \E r \in ReqsKey : Forbidden(r)

SpecKey == InitKey /\ [][NextKey]_vars

\* ----------------------- workload 11: texts given character run by character run
MaxValueLen == 2

\* the string values a Generation Client may write: letters, spaces, line
\* breaks, and code fences with or without a tag (as in a Source that holds
\* documentation)
ValuesText == UNION {[1..n -> {Letter, SP, NL, Fence, Tag}] : n \in 0..MaxValueLen}

OutsText ==
  {Written(pre, v, post, closed) :
     pre \in {<<>>, <<Fence, Tag, NL>>, <<Fence, NL>>, <<SP, Fence, Tag>>},
     v \in ValuesText,
     post \in {<<>>, <<NL, Fence>>, <<NL, Fence, NL>>},
     closed \in BOOLEAN}

ReqsText == {AiReq(ServerKey, PMake, "s1", "plan")}

NextText ==
  \/ \E r \in ReqsText : Fresh /\ AiReceive(r)
  \/ \E o \in OutsText : AiResume(1, o)

SpecText == Init /\ [][NextText]_vars

\* ------------------------------- workload 12: v9.4, prompts of every intent
PromptsIntent ==
  {PMake, PIdeas, PWhat, PHiShop, PLongHello, PError, PDelete, PRename, PLongError, PShout}

ReqsIntent ==
  {AiReq(ServerKey, p, sid, m) :
     p \in PromptsIntent, sid \in {Undef, "s1"}, m \in {Undef, "plan"}}

OutsIntent ==
  {Thrown, NoText, Garbage(TNotJson), Garbage(TIdeas),
   Decoded([Obj EXCEPT !.message = "On it."]),
   Decoded([Obj EXCEPT !.message = "On it.", !.plan = ArrPlan(<<SOk>>)])}

InitIntent == Init /\ variant = V94

NextIntent ==
  \/ \E r \in ReqsIntent : Fresh /\ AiReceive(r)
  \/ \E o \in OutsIntent : AiResume(1, o)

SpecIntent == InitIntent /\ [][NextIntent]_vars

\* ================================================================ properties
\* a POST /ai request that passed the key check and was answered
AiAnswered == resp.route = "POST /ai" /\ resp.handled

\* the answered request went through the Generation Client, which returned
\* text that decoded to a JSON value with an array under "plan"
DecodedPlan ==
  /\ AiAnswered
  /\ resp.calls = 1
  /\ resp.out.k = "json"
  /\ resp.out.val.kind = "object"
  /\ PlanIsArray(resp.out.val.plan)

\* the response carries a JSON object with an array under "plan"
ReturnsPlan ==
  /\ resp.status = 200
  /\ resp.body.kind = "object"
  /\ PlanIsArray(resp.body.plan)

NonEmptyString(x) == IsString(x) /\ x # ""

\* the plan member is missing or is the empty array
NoSteps(body) == body.plan = NoPlan \/ body.plan = ArrPlan(<<>>)

\* the nine UI classes of the specification
UIClassesSpec ==
  {"ScreenGui", "Frame", "TextLabel", "TextButton", "ImageLabel", "ImageButton",
   "ScrollingFrame", "TextBox", "ViewportFrame"}

\* C1 (as stated): in every variant an authenticated POST /ai is answered with
\* HTTP 200 and a JSON object whose message is a non-empty string, whatever
\* the request body and whatever the Generation Client does.
C1_AlwaysMessage ==
  AiAnswered =>
    /\ resp.status = 200
    /\ resp.body.kind = "object"
    /\ NonEmptyString(resp.body.message)

C3_DeletionGate ==
  (variant \in {V140, V150, V170, V171} /\ DecodedPlan /\ ReturnsPlan
     /\ resp.out.val.plan.steps # <<>>) =>
    LET D == DeletionCount(resp.out.val.plan.steps)
    IN IF D >= DeleteThreshold
       THEN /\ resp.body.needsApproval = JTrue
            /\ resp.body.autoExecute = JFalse
            /\ resp.body.message = DeleteWarning(D)
       ELSE /\ resp.body.needsApproval = JFalse
            /\ resp.body.autoExecute =
                 (IF resp.out.val.autoExecute = Undef THEN JTrue
                  ELSE resp.out.val.autoExecute)

\* C4 (as stated): in v10.4, v14.0, v15.0, v17.0, v17.1 and ULTIMATE no step
\* of a plan in a POST /ai response has one of the nine UI classes.
C4_NoUIClass ==
  (variant \in {V104, V140, V150, V170, V171, VULT} /\ AiAnswered /\ ReturnsPlan) =>
    ~HasClassIn(resp.body.plan.steps, UIClassesSpec)

\* C5 (as stated): in every variant with POST /undo, when the last POST /ai
\* response for session S carried N >= 1 steps, none a delete, the next
\* POST /undo for S returns exactly N delete steps with the same name,
\* className and parentPath in the same order, needsApproval = true and
\* autoExecute = false.
C5_UndoRoundTrip ==
  (/\ resp.route = "POST /undo"
   /\ resp.handled
   /\ Truthy(resp.req.sessionId)
   /\ resp.prior # <<>>
   /\ resp.prior[1] # <<>>
   /\ DeletionCount(resp.prior[1]) = 0) =>
    /\ ReturnsPlan
    /\ Len(resp.body.plan.steps) = Len(resp.prior[1])
    /\ \A i \in 1..Len(resp.prior[1]) :
         /\ resp.body.plan.steps[i].type = "delete"
         /\ resp.body.plan.steps[i].name = resp.prior[1][i].name
         /\ resp.body.plan.steps[i].className = resp.prior[1][i].className
         /\ resp.body.plan.steps[i].parentPath = resp.prior[1][i].parentPath
    /\ resp.body.needsApproval = JTrue
    /\ resp.body.autoExecute = JFalse

\* C6 (as stated): the only status other than 200 is the 403 of a key
\* mismatch; a request that passes the key check is answered 200 even when
\* its processing throws; a request answered 403 reaches no handler.
C6_Only403 ==
  resp.route # "none" =>
    /\ resp.status \in {200, 403}
    /\ KeyOk(resp.req) => resp.status = 200
    /\ resp.status = 403 => (~KeyOk(resp.req) /\ ~resp.handled /\ resp.calls = 0)

\* C7 (as stated): a POST /ai whose prompt is absent, empty or whitespace is
\* answered 200 with a message and an empty or absent plan, without a call to
\* the Generation Client and without a change to the session map.
C7_EmptyPrompt ==
  (AiAnswered /\ PromptEmpty(resp.req.prompt)) =>
    /\ resp.status = 200
    /\ NonEmptyString(resp.body.message)
    /\ NoSteps(resp.body)
    /\ resp.calls = 0
    /\ sessionData = [k \in Keys |-> NoObj]

\* C8 (as stated): when the Generation Client call throws, the answer is 200
\* with a generic message and no steps.
C8_ClientThrows ==
  (AiAnswered /\ resp.calls = 1 /\ resp.out.k = "throw") =>
    /\ resp.status = 200
    /\ NonEmptyString(resp.body.message)
    /\ NoSteps(resp.body)

C10_StepsTotal ==
  (variant \in {V104, V130, V140, V150, V170, V171, VULT} /\ DecodedPlan /\ ReturnsPlan
     /\ resp.body.stepsTotal # Absent) =>
    resp.body.stepsTotal = Len(resp.body.plan.steps)

\* C11 (as stated): the plan stage never throws: for every parsed value whose
\* plan is an array, also with null steps and steps without type, name or
\* parentPath, the response carries the enforced plan and is never the
\* fallback response of the catch-all.
C11_StageNeverThrows ==
  DecodedPlan =>
    /\ resp.status = 200
    /\ resp.body # CatchReply(variant).body

\* C12 (as stated): in every variant a parsed value without a plan, or with a
\* plan that is not an array, is answered with plan as the empty array.
C12_NonArrayPlanEmptied ==
  (AiAnswered /\ resp.calls = 1 /\ resp.out.k = "json" /\ resp.out.val.kind = "object"
     /\ ~PlanIsArray(resp.out.val.plan)) =>
    /\ resp.status = 200
    /\ resp.body.kind = "object"
    /\ resp.body.plan = ArrPlan(<<>>)

\* the step taken is a POST /undo that carried a session id
UndoStepTaken ==
  /\ resp'.route = "POST /undo"
  /\ resp'.handled
  /\ pending' = pending
  /\ Truthy(resp'.req.sessionId)

\* the undo log of session key k in the current state
LogOf(k) == IF sessionData[k] = NoObj THEN <<>> ELSE heap[sessionData[k]].creationLog

\* the same log after the step
LogOfNext(k) ==
  IF sessionData'[k] = NoObj THEN <<>> ELSE heap'[sessionData'[k]].creationLog

\* C13 (as stated): a POST /undo on a non-empty undo log removes exactly the
\* most recent entry and leaves the earlier ones unchanged, and its response
\* has one 'delete' step per step of that entry, numbered 1..N, with
\* autoExecute = false and needsApproval = true; on an empty log it leaves the
\* log empty and returns canUndo = false.
C13_UndoIsLIFO ==
  [][UndoStepTaken =>
       LET k == resp'.req.sessionId
           log == LogOf(k)
       IN IF log # <<>>
          THEN /\ LogOfNext(k) = SubSeq(log, 1, Len(log) - 1)
               /\ resp'.status = 200
               /\ PlanIsArray(resp'.body.plan)
               /\ Len(resp'.body.plan.steps) = Len(log[Len(log)].plan)
               /\ \A i \in 1..Len(resp'.body.plan.steps) :
                    /\ resp'.body.plan.steps[i].type = "delete"
                    /\ resp'.body.plan.steps[i].step = i
               /\ resp'.body.autoExecute = JFalse
               /\ resp'.body.needsApproval = JTrue
          ELSE /\ LogOfNext(k) = <<>>
               /\ resp'.status = 200
               /\ resp'.body.canUndo = JFalse]_vars

\* C14 (as stated): after any sequence of POST /ai and POST /undo every undo
\* log holds at most 10 entries, and adding an entry to a log of 10 evicts
\* the oldest entry and keeps the 9 newer ones in order.
C14_LogCapped ==
  [][\A k \in Keys :
       /\ Len(LogOfNext(k)) <= LogCap
       /\ (Len(LogOf(k)) = LogCap /\ Len(pending') < Len(pending) /\ resp'.evicted
             /\ k = resp'.req.sessionId) =>
            /\ Len(LogOfNext(k)) = LogCap
            /\ SubSeq(LogOfNext(k), 1, LogCap - 1) = Tail(LogOf(k))
            /\ LogOfNext(k)[LogCap].plan = resp'.out.val.plan.steps]_vars

\* a POST /ai was logged on a full log: the oldest entry was evicted, and the
\* plan that was generated is the newest of the 10 entries
C14_Witness ==
  /\ resp.route = "POST /ai"
  /\ resp.evicted
  /\ Len(LogOf("s1")) = LogCap
  /\ LogOf("s1")[LogCap].plan = resp.out.val.plan.steps
  /\ LogOf("s1")[1].plan # LogOf("s1")[LogCap].plan

\* the last request answered was a POST /undo without a session id
UndoWithoutSession ==
  /\ resp.route = "POST /undo"
  /\ resp.handled
  /\ ~Truthy(resp.req.sessionId)

\* C15: in every variant that has /undo, a POST /undo without sessionId is
\* answered (status 200, nothing thrown to the client) with canUndo = false
\* and without a plan.
C15_UndoWithoutSession ==
  UndoWithoutSession =>
    /\ resp.status = 200
    /\ resp.body.kind = "object"
    /\ resp.body.canUndo = JFalse
    /\ resp.body.plan = NoPlan

\* a POST /undo without session id was answered while the session "s1" of the
\* same server still had an entry to undo
C15_Witness ==
  /\ UndoWithoutSession
  /\ resp.body.canUndo = JFalse
  /\ LogOf("s1") # <<>>

\* C16 (as stated): every authenticated POST /ai whose prompt is a non-empty
\* string is answered after exactly one call to the Generation Client (the
\* response is sent by the step that resumes the handler after the call, and
\* no handler calls a second time).
C16_ExactlyOneCall ==
  (AiAnswered /\ IsString(resp.req.prompt) /\ ~PromptEmpty(resp.req.prompt)) =>
    resp.calls = 1

\* C19 (as stated): in every variant formatContext returns the fixed sentinel
\* for an absent snapshot, and for any other snapshot (members absent, a
\* non-array where a list is expected, null or primitive list elements) it
\* returns a string without throwing.
C19_FormatTotal ==
  formatted.called =>
    /\ formatted.out.k = "ok"
    /\ formatted.arg.kind \in {"undefined", "null"} =>
         formatted.out.text = IF variant = V180 THEN "No context provided."
                              ELSE "Empty workspace."

C17_ClearedStaysCleared ==
  [][\A k \in Keys :
       (Truthy(k) /\ sessionData[k] = NoObj /\ sessionData'[k] # NoObj) =>
         /\ Len(pending') = Len(pending) + 1
         /\ pending'[Len(pending')].req.sessionId = k]_vars

\* the sessions the map holds
Stored == {heap[sessionData[k]] : k \in {q \in Keys : sessionData[q] # NoObj}}

\* C18 (as stated): in v10.4 a stored session never holds more than 20 chat
\* entries nor more than 15 previous steps, and no previous step is of type
\* 'delete'.
C18_RingsBounded ==
  \A sess \in Stored :
    /\ Len(sess.chatHistory) <= ChatCap
    /\ Len(sess.previousSteps) <= PrevCap
    /\ \A i \in 1..Len(sess.previousSteps) : sess.previousSteps[i].type # "delete"

\* C30 (as stated): in every variant a POST /ai or POST /undo response that
\* carries needsApproval = true also carries autoExecute = false, whatever
\* the parsed value supplied for the two members.
C30_ApprovalStopsAuto ==
  (resp.route \in {"POST /ai", "POST /undo"} /\ resp.handled /\ resp.body.kind = "object"
     /\ resp.body.needsApproval = JTrue) =>
    resp.body.autoExecute = JFalse

\* C26 (as stated): in v17.0 and v17.1 the canUndo flag of every session is
\* true exactly when its creationLog is non-empty, after any sequence of POST
\* /ai and POST /undo requests.
C26_CanUndoIffLogged ==
  variant \in {V170, V171} =>
    \A sess \in Stored : sess.canUndo <=> (sess.creationLog # <<>>)

\* the session stored under key k, in this state and in the next one (a key
\* without entry reads as a new session)
SessionOf(k) == IF sessionData[k] = NoObj THEN NewSession ELSE heap[sessionData[k]]
SessionOfNext(k) == IF sessionData'[k] = NoObj THEN NewSession ELSE heap'[sessionData'[k]]

\* the step resumes a POST /ai whose reply decoded and ends it with the
\* catch-all error response
CaughtAfterDecode ==
  /\ Len(pending') < Len(pending)
  /\ resp'.route = "POST /ai"
  /\ resp'.out.k = "json"
  /\ resp'.body = CatchReply(variant).body

\* C27 (as stated): in v17.0, v17.1 and v10.4 a POST /ai that ends in the
\* catch-all error response adds nothing to the undo log, to previousSteps or
\* to chatHistory of any session.
C27_CatchLeavesSession ==
  [][(variant \in {V170, V171, V104} /\ CaughtAfterDecode) =>
       \A k \in Keys :
         /\ SessionOfNext(k).creationLog = SessionOf(k).creationLog
         /\ SessionOfNext(k).previousSteps = SessionOf(k).previousSteps
         /\ SessionOfNext(k).chatHistory = SessionOf(k).chatHistory]_vars

\* C28 (as stated): in v17.0 and v17.1, when a POST /ai response carries
\* canUndo = true, the POST /undo that is sent next with the same sessionId
\* value (present or absent) returns an inverse plan with at least one step,
\* all of type delete.
C28_CanUndoIsUndoable ==
  [][(/\ variant \in {V170, V171}
      /\ AiAnswered /\ resp.body.kind = "object" /\ resp.body.canUndo = JTrue
      /\ pending = <<>>
      /\ resp'.route = "POST /undo" /\ resp'.handled
      /\ resp'.req.sessionId = resp.req.sessionId) =>
       /\ PlanIsArray(resp'.body.plan)
       /\ Len(resp'.body.plan.steps) >= 1
       /\ \A i \in 1..Len(resp'.body.plan.steps) :
            resp'.body.plan.steps[i].type = "delete"]_vars

\* C22 (as stated): in v15.0, when the generated text fails to decode and
\* contains one of the 'ideas' phrases, the response carries needsApproval =
\* true and autoExecute = false with the 'I should execute, not suggest'
\* message.
C22_IdeasFallbackNeedsApproval ==
  (variant = V150 /\ AiAnswered /\ resp.calls = 1 /\ resp.out.k = "garbage"
     /\ TextHasIdeas(resp.out.text)) =>
    /\ resp.body.message = "I should execute, not suggest. Please rephrase your request."
    /\ resp.body.needsApproval = JTrue
    /\ resp.body.autoExecute = JFalse

\* v10.4 answered with the plan it enforced
Enforced104 ==
  /\ variant = V104
  /\ DecodedPlan
  /\ resp.body.kind = "object"
  /\ PlanIsArray(resp.body.plan)

\* C23: in v10.4 every returned step of class LocalScript has a parentPath
\* that contains 'StarterPlayer', and every step that was generated with a UI
\* class is returned as a LocalScript under
\* game.StarterPlayer.StarterPlayerScripts.
C23_LocalScriptsPlaced ==
  Enforced104 =>
    \A i \in 1..Len(resp.body.plan.steps) :
      LET st == resp.body.plan.steps[i]
          gen == resp.out.val.plan.steps[i]
      IN /\ (st.kind = "object" /\ st.className = "LocalScript") =>
              PathInStarterPlayer(st.parentPath)
         /\ (gen.kind = "object" /\ gen.className \in UIClasses104) =>
              /\ st.className = "LocalScript"
              /\ st.parentPath = StarterPlayerScripts

\* v10.4 returned a plan of two steps: a generated LocalScript that it moved
\* out of game.StarterGui, and a Frame that it rewrote
C23_Witness ==
  /\ Enforced104
  /\ resp.out.val.plan.steps = <<SOdd, SUi>>
  /\ resp.body.plan.steps[1].parentPath = StarterPlayerScripts
  /\ resp.body.plan.steps[2].className = "LocalScript"

\* the /ai request just answered asked for a plan and the text decoded: the
\* response is the decoded value, not the fallback plan nor the catch reply
PlanDecoded180 ==
  /\ variant = V180
  /\ AiAnswered
  /\ resp.calls = 1
  /\ resp.req.mode = "plan"
  /\ resp.out.k = "json"
  /\ resp.body # FallbackBody180

\* the step answers an /ai request whose text did not decode, or whose mode is
\* neither 'ideas' nor 'plan'
FailedOrInvalid180 ==
  /\ variant = V180
  /\ resp'.route = "POST /ai"
  /\ resp'.handled
  /\ resp' # resp
  /\ \/ resp'.calls = 1 /\ resp'.out.k = "garbage"
     \/ Mode180(resp'.req) \notin {"ideas", "plan"}

\* C25 (as stated): in v18.0, after a plan-mode /ai whose text decoded, the
\* next POST /get-session with the same sessionId, absent included, returns a
\* lastPlan whose plan is the plan /ai returned; a decode failure or an
\* invalid mode leaves every session's lastIdeas and lastPlan as they were,
\* and an invalid mode makes no call.
C25_GetSessionReturnsPlan ==
  [][/\ (PlanDecoded180 /\ resp'.route = "POST /get-session" /\ resp'.handled
          /\ resp'.req.sessionId = resp.req.sessionId)
          => resp'.body.lastPlan = <<resp.body.plan>>
     /\ FailedOrInvalid180 =>
          /\ \A k \in Keys : /\ SessionOfNext(k).lastIdeas = SessionOf(k).lastIdeas
                              /\ SessionOfNext(k).lastPlan = SessionOf(k).lastPlan
          /\ (Mode180(resp'.req) \notin {"ideas", "plan"} => resp'.calls = 0)]_vars

\* the request is for GET /health in a file whose middleware lets GET /,
\* /health and /ping through
ExemptRequest(req) == req.route = "GET /health" /\ variant \in ExemptVariants

\* C29: in every variant a listening process has a server-side key, and every
\* request to a route that is not exempt whose x-acidnade-key differs from
\* that key is answered 403 without reaching a handler.
C29_KeyAlwaysChecked ==
  /\ Listening => Truthy(serverKey)
  /\ (resp.route # "none" /\ ~ExemptRequest(resp.req) /\ resp.req.key # serverKey) =>
       resp.status = 403 /\ ~resp.handled

\* a process with API_KEY alone answered 403 to a POST /ai without the header
C29_Witness ==
  /\ Listening
  /\ process.ACIDNADE_API_KEY = Undef
  /\ serverKey = process.API_KEY
  /\ resp.route = "POST /ai"
  /\ resp.req.key = Undef
  /\ resp.status = 403

\* C21 (as stated): the cleaning step removes only the fence markers at the
\* start and the end of the generated text and the white space around them, so
\* a text that holds a valid JSON document between its outer fences decodes to
\* the value that was written, also a string value that holds a fence marker.
C21_CleanKeepsDocument ==
  (parsed.called /\ parsed.closed) => (parsed.ok /\ parsed.value = parsed.wrote)

\* v9.4 answered a request whose generated text did not decode
Fallback94 ==
  /\ variant = V94
  /\ AiAnswered
  /\ resp.calls = 1
  /\ resp.out.k = "garbage"

\* a word of the list occurs in the lower-cased prompt of the answered request
Mentions(list) == \E w \in list : Includes(ToLowerCase(resp.req.prompt), w)

\* C24: after a decode failure v9.4 answers with plan [] exactly when the
\* message has a create keyword or 'delete' or 'remove', has none of 'error',
\* 'fix this', 'not working', 'issue', and either is 50 characters or longer
\* or has no greeting, question or chat word; otherwise the answer has no plan.
C24_IntentDecidesPlan ==
  Fallback94 =>
    LET chat == /\ Len(resp.req.prompt) < 50
                /\ Mentions({"hi", "hello", "hey", "greetings", "yo", "what's up",
                             "how are you", "what can you do", "help", "? ",
                             "thanks", "thank you", "good", "ok", "okay", "bye"})
        broken == Mentions({"error", "fix this", "not working", "issue"})
        wanted == Mentions(CreateKeywords94) \/ Mentions({"delete", "remove"})
    IN IF ~chat /\ ~broken /\ wanted
       THEN resp.body.plan = ArrPlan(<<>>)
       ELSE resp.body.plan = NoPlan

\* a long message with a greeting and a create keyword got the fallback with
\* an empty plan
C24_Witness ==
  /\ Fallback94
  /\ resp.req.prompt = PLongHello
  /\ resp.body.plan = ArrPlan(<<>>)

====
